---- MODULE Spec2Model ----
(***************************************************************************)
(* CLD engine: graph model, SCC based topology analyzer, execution         *)
(* strategies and the execution engine of stefanspycher/CLD_Engine.        *)
(***************************************************************************)
EXTENDS Integers, Sequences, FiniteSets, TLC

VARIABLES
    graph,            \* the Graph value under construction / execution
    pc,               \* position of the caller / of CLDEngine.execute
    order,            \* last result of strategy.determineExecutionOrder
    strategy,         \* the strategy the engine was constructed with
    stratPrev,        \* ConvergenceStrategy.previousResults (private field)
    stateMap,         \* execute: stateMap
    outputs,          \* execute: outputs
    iteration,        \* execute: iteration
    previousResults,  \* execute: previousResults
    executionOrder,   \* execute: executionOrder of the running iteration
    backEdgeValues,   \* execute: backEdgeValues of the running iteration
    currentResults,   \* execute: currentResults of the running iteration
    pos,              \* index of the for-loop over executionOrder
    resolved,         \* gatherInputs: (edge, isBackEdge, edgeValue) of the last call
    inputValues,      \* gatherInputs: record returned by the last call
    calls,            \* number of node.calculate invocations per node id
    history,          \* currentResults of every finished iteration, oldest first
    result,           \* the ExecutionResult returned, or the error thrown
    initialState,     \* execute: the optional initialState argument
    runs,             \* number of execute calls made on the engine
    heap,             \* Map and array objects behind the Graph values of a host
    contexts,         \* the BasicExecutionContext objects constructed, in order
    lastCall          \* the last call of a host, with what it saw and what it got

vars == <<graph, pc, order, strategy, stratPrev, stateMap, outputs, iteration,
          previousResults, executionOrder, backEdgeValues, currentResults, pos,
          resolved, inputValues, calls, history, result, initialState, runs, heap, contexts, lastCall>>

runVars == <<strategy, stratPrev, stateMap, outputs, iteration, previousResults,
             executionOrder, backEdgeValues, currentResults, pos, resolved,
             inputValues, calls, history, result, initialState, runs, heap, contexts, lastCall>>

-----------------------------------------------------------------------------
(* Bounds of the model *)

MaxEdges == 3
MaxIterations == 3
MaxThreshold == 1
MaxRuns == 2
MaxGraphs == 4

-----------------------------------------------------------------------------
(* Values *)

\* an empty object literal {} / an empty Map
EmptyRecord == [k \in {} |-> 0]

Min(a, b) == IF a < b THEN a ELSE b

Abs(a) == IF a < 0 THEN -a ELSE a

\* a field value whose typeof is not "number" (a string, say); every other field
\* value is an integer
NonNumeric == 1000

\* typeof v === "number"
IsNumber(v) == v \in Int /\ v # NonNumeric

\* JavaScript truthiness of a string
Truthy(s) == s # ""

Range(s) == {s[i] : i \in 1..Len(s)}

\* Array.prototype.indexOf, 1-based; 0 stands for -1
IndexOf(s, x) ==
    IF \E i \in 1..Len(s) : s[i] = x
    THEN CHOOSE i \in 1..Len(s) : s[i] = x /\ \A j \in 1..(i - 1) : s[j] # x
    ELSE 0

-----------------------------------------------------------------------------
(* Ports and nodes *)

PortDescriptor(id, name, kind) == [id |-> id, name |-> name, kind |-> kind]

\* createVariableNode(id, initialValue)
createVariableNode(id, initialValue) ==
    [id |-> id, type |-> "variable", state |-> [value |-> initialValue],
     inputs |-> <<PortDescriptor("delta", "delta", "input")>>,
     outputs |-> <<PortDescriptor("delta", "delta", "output")>>,
     outputValue |-> 0]

\* createConstantNode(id, outputValue) of the test suites
createConstantNode(id, outputValue) ==
    [id |-> id, type |-> "constant", state |-> EmptyRecord,
     inputs |-> <<>>,
     outputs |-> <<PortDescriptor("delta", "delta", "output")>>,
     outputValue |-> outputValue]

\* the node definitions the callers of this model add to a graph
NodeCatalogue ==
    {createConstantNode("INPUT", 1), createVariableNode("A", 0), createVariableNode("B", 0)}

NodeIds == {n.id : n \in NodeCatalogue}

PortIds == {"delta"}

-----------------------------------------------------------------------------
(* Graph.ts *)

createGraph == [nodes |-> <<>>, edges |-> <<>>]

\* graph.nodes.keys(), in insertion order
NodeKeys(g) == [i \in 1..Len(g.nodes) |-> g.nodes[i].id]

HasNode(g, id) == \E i \in 1..Len(g.nodes) : g.nodes[i].id = id

\* graph.nodes.get(id), for an id the map has
GetNode(g, id) == g.nodes[CHOOSE i \in 1..Len(g.nodes) : g.nodes[i].id = id]

addNode(g, node) == [nodes |-> Append(g.nodes, node), edges |-> g.edges]

\* the new edge put in front of the existing ones
addEdge_Prepends(g, edge) == [nodes |-> g.nodes, edges |-> <<edge>> \o g.edges]

addEdge(g, edge) == [nodes |-> g.nodes, edges |-> Append(g.edges, edge)]

Edge(id, fromNodeId, fromPortId, toNodeId, toPortId) ==
    [id |-> id, fromNodeId |-> fromNodeId, fromPortId |-> fromPortId,
     toNodeId |-> toNodeId, toPortId |-> toPortId]

-----------------------------------------------------------------------------
(* topology/modifiedTopologicalSort.ts *)

getSuccessors(g, nodeId) ==
    LET out == SelectSeq(g.edges, LAMBDA e : e.fromNodeId = nodeId)
    IN  [i \in 1..Len(out) |-> out[i].toNodeId]

\* the popped ids put at the front of the component: scc.unshift(w) for scc.push(w)
RECURSIVE PopComponent_Unshift(_, _, _)
PopComponent_Unshift(st, nodeId, scc) ==
    IF Len(st.stack) = 0
    THEN [st EXCEPT !.sccs = Append(@, scc)]
    ELSE LET w == st.stack[Len(st.stack)]
             popped == [st EXCEPT !.stack = SubSeq(@, 1, Len(@) - 1)]
             marked == IF Truthy(w)
                       THEN [popped EXCEPT !.nodeData[w].onStack = FALSE]
                       ELSE popped
             scc2 == IF Truthy(w) THEN <<w>> \o scc ELSE scc
         IN  IF w # nodeId
             THEN PopComponent_Unshift(marked, nodeId, scc2)
             ELSE [marked EXCEPT !.sccs = Append(@, scc2)]

\* the do-while loop that pops one component off Tarjan's stack
RECURSIVE PopComponent(_, _, _)
PopComponent(st, nodeId, scc) ==
    IF Len(st.stack) = 0
    THEN [st EXCEPT !.sccs = Append(@, scc)]
    ELSE LET w == st.stack[Len(st.stack)]
             popped == [st EXCEPT !.stack = SubSeq(@, 1, Len(@) - 1)]
             marked == IF Truthy(w)
                       THEN [popped EXCEPT !.nodeData[w].onStack = FALSE]
                       ELSE popped
             scc2 == IF Truthy(w) THEN Append(scc, w) ELSE scc
         IN  IF w # nodeId
             THEN PopComponent(marked, nodeId, scc2)
             ELSE [marked EXCEPT !.sccs = Append(@, scc2)]

RECURSIVE strongConnect(_, _, _)
RECURSIVE VisitSuccessors(_, _, _, _, _)

VisitSuccessors(g, st, nodeId, successors, i) ==
    IF i > Len(successors)
    THEN st
    ELSE LET successorId == successors[i]
         IN  IF successorId \notin DOMAIN st.nodeData
             THEN VisitSuccessors(g, st, nodeId, successors, i + 1)
             ELSE IF st.nodeData[successorId].index = -1
             THEN LET r == strongConnect(g, st, successorId)
                      r2 == [r EXCEPT !.nodeData[nodeId].lowLink =
                                Min(@, r.nodeData[successorId].lowLink)]
                  IN  VisitSuccessors(g, r2, nodeId, successors, i + 1)
             ELSE IF st.nodeData[successorId].onStack
             THEN LET r2 == [st EXCEPT !.nodeData[nodeId].lowLink =
                                Min(@, st.nodeData[successorId].index)]
                  IN  VisitSuccessors(g, r2, nodeId, successors, i + 1)
             ELSE VisitSuccessors(g, st, nodeId, successors, i + 1)

strongConnect(g, st, nodeId) ==
    LET entered == [st EXCEPT
                      !.nodeData[nodeId] =
                          [index |-> st.index, lowLink |-> st.index, onStack |-> TRUE],
                      !.index = st.index + 1,
                      !.stack = Append(st.stack, nodeId)]
        visited == VisitSuccessors(g, entered, nodeId, getSuccessors(g, nodeId), 1)
    IN  IF visited.nodeData[nodeId].lowLink = visited.nodeData[nodeId].index
        THEN PopComponent(visited, nodeId, <<>>)
        ELSE visited

RECURSIVE RunTarjan(_, _, _, _)
RunTarjan(g, st, keys, i) ==
    IF i > Len(keys)
    THEN st
    ELSE IF st.nodeData[keys[i]].index = -1
         THEN RunTarjan(g, strongConnect(g, st, keys[i]), keys, i + 1)
         ELSE RunTarjan(g, st, keys, i + 1)

findSCCs(g) ==
    LET keys == NodeKeys(g)
        start == [index |-> 0, stack |-> <<>>, sccs |-> <<>>,
                  nodeData |-> [n \in Range(keys) |->
                                   [index |-> -1, lowLink |-> -1, onStack |-> FALSE]]]
    IN  RunTarjan(g, start, keys, 1).sccs

\* nodeToComponent.get(nodeId): component ids are 1-based here; 0 stands for undefined
nodeToComponent(sccs, nodeId) ==
    LET holders == {c \in 1..Len(sccs) : nodeId \in Range(sccs[c])}
    IN  IF holders = {} THEN 0 ELSE CHOOSE c \in holders : \A d \in holders : d <= c

\* Set.add on an insertion-ordered Set held as a duplicate-free sequence
SetAdd(s, x) == IF x \in Range(s) THEN s ELSE Append(s, x)

RECURSIVE AddComponentEdges(_, _, _, _)
AddComponentEdges(componentGraph, sccs, edges, i) ==
    IF i > Len(edges)
    THEN componentGraph
    ELSE LET fromComponent == nodeToComponent(sccs, edges[i].fromNodeId)
             toComponent == nodeToComponent(sccs, edges[i].toNodeId)
         IN  IF fromComponent = 0 \/ toComponent = 0
             THEN AddComponentEdges(componentGraph, sccs, edges, i + 1)
             ELSE IF fromComponent # toComponent
             THEN AddComponentEdges(
                      [componentGraph EXCEPT ![fromComponent] = SetAdd(@, toComponent)],
                      sccs, edges, i + 1)
             ELSE AddComponentEdges(componentGraph, sccs, edges, i + 1)

\* in-degree of every component: one per (predecessor, successor) pair
InDegrees(componentGraph) ==
    [c \in DOMAIN componentGraph |->
        Cardinality({p \in DOMAIN componentGraph : c \in Range(componentGraph[p])})]

\* buildComponentGraph with the direction of every component edge swapped
buildComponentGraph_Reversed(sccs, g) ==
    LET forward == AddComponentEdges([c \in 1..Len(sccs) |-> <<>>], sccs, g.edges, 1)
    IN  [c \in 1..Len(sccs) |->
            SelectSeq([p \in 1..Len(sccs) |-> p], LAMBDA p : c \in Range(forward[p]))]

buildComponentGraph(sccs, g) ==
    AddComponentEdges([c \in 1..Len(sccs) |-> <<>>], sccs, g.edges, 1)

\* the for-loop over the successors of a dequeued component
RECURSIVE Relax(_, _, _, _)
Relax(inDegree, queue, successors, i) ==
    IF i > Len(successors)
    THEN [inDegree |-> inDegree, queue |-> queue]
    ELSE LET successor == successors[i]
             newDegree == inDegree[successor] - 1
         IN  Relax([inDegree EXCEPT ![successor] = newDegree],
                   IF newDegree = 0 THEN Append(queue, successor) ELSE queue,
                   successors, i + 1)

\* the queue served from its end: queue.pop() in place of queue.shift()
RECURSIVE Kahn_LastFirst(_, _, _, _)
Kahn_LastFirst(componentGraph, inDegree, queue, res) ==
    IF Len(queue) = 0
    THEN res
    ELSE LET component == queue[Len(queue)]
             r == Relax(inDegree, SubSeq(queue, 1, Len(queue) - 1),
                        componentGraph[component], 1)
         IN  Kahn_LastFirst(componentGraph, r.inDegree, r.queue, Append(res, component))

RECURSIVE Kahn(_, _, _, _)
Kahn(componentGraph, inDegree, queue, res) ==
    IF Len(queue) = 0
    THEN res
    ELSE LET component == Head(queue)
             r == Relax(inDegree, Tail(queue), componentGraph[component], 1)
         IN  Kahn(componentGraph, r.inDegree, r.queue, Append(res, component))

\* the components returned as findSCCs emitted them, the in-degrees unused
topologicalSortComponents_EmissionOrder(componentGraph) ==
    [c \in 1..Len(componentGraph) |-> c]

topologicalSortComponents(componentGraph) ==
    LET inDegree == InDegrees(componentGraph)
        n == Len(componentGraph)
        queue == SelectSeq([c \in 1..n |-> c], LAMBDA c : inDegree[c] = 0)
    IN  Kahn(componentGraph, inDegree, queue, <<>>)

\* step 4 emitting the first member of every component before the other members
RECURSIVE Flatten_HeadsFirst(_, _, _)
Flatten_HeadsFirst(sccs, componentOrder, i) ==
    IF i > Len(componentOrder)
    THEN <<>>
    ELSE LET scc == sccs[componentOrder[i]]
         IN  IF Len(scc) = 0
             THEN Flatten_HeadsFirst(sccs, componentOrder, i + 1)
             ELSE <<Head(scc)>> \o Flatten_HeadsFirst(sccs, componentOrder, i + 1)
                      \o Tail(scc)

RECURSIVE Flatten(_, _, _)
Flatten(sccs, componentOrder, i) ==
    IF i > Len(componentOrder)
    THEN <<>>
    ELSE sccs[componentOrder[i]] \o Flatten(sccs, componentOrder, i + 1)

\* the components flattened in Tarjan's discovery order, steps 2 and 3 left out
modifiedTopologicalSort_DiscoveryOrder(g) ==
    LET sccs == findSCCs(g)
    IN  Flatten(sccs, [c \in 1..Len(sccs) |-> c], 1)

modifiedTopologicalSort(g) ==
    LET sccs == findSCCs(g)
        componentGraph == buildComponentGraph(sccs, g)
        componentOrder == topologicalSortComponents(componentGraph)
    IN  Flatten(sccs, componentOrder, 1)

-----------------------------------------------------------------------------
(* Optional values and Maps *)

\* an optional value: <<>> when undefined, <<v>> when it holds v
None == <<>>
Some(v) == <<v>>

\* Map.set / property assignment on a Map or record held as a function
Put(m, k, v) == [x \in DOMAIN m \cup {k} |-> IF x = k THEN v ELSE m[x]]

-----------------------------------------------------------------------------
(* strategies/SinglePassStrategy.ts, MultiPassStrategy.ts, ConvergenceStrategy.ts *)

SinglePassStrategy == [kind |-> "SinglePass"]

MultiPassStrategy(maxIterations) ==
    [kind |-> "MultiPass", maxIterations |-> maxIterations]

ConvergenceStrategy(threshold, maxIterations) ==
    [kind |-> "Convergence", threshold |-> threshold, maxIterations |-> maxIterations]

\* the strategies an engine is constructed with
Strategies ==
    {SinglePassStrategy}
        \cup {MultiPassStrategy(n) : n \in 1..MaxIterations}
        \cup {ConvergenceStrategy(t, n) : t \in 0..MaxThreshold, n \in 1..MaxIterations}

determineExecutionOrder(s, g) == modifiedTopologicalSort(g)

\* the key `${nodeId}.${portId}` of a back-edge value
BackEdgeKey(nodeId, portId) == nodeId \o "." \o portId

\* the field scan starting one iteration late: nothing is reported in iteration 2
ScanBackEdgeValues_FromThird(iter, previous, keys) ==
    IF iter <= 2 \/ previous = None
    THEN EmptyRecord
    ELSE LET prev == previous[1]
             fields == UNION {{<<n, f>> : f \in {x \in DOMAIN prev[n] : IsNumber(prev[n][x])}} :
                                n \in DOMAIN prev}
         IN  [k \in {BackEdgeKey(p[1], p[2]) : p \in fields} |->
                 LET p == CHOOSE q \in fields :
                              /\ BackEdgeKey(q[1], q[2]) = k
                              /\ \A r \in fields :
                                    BackEdgeKey(r[1], r[2]) = k =>
                                        IndexOf(keys, r[1]) <= IndexOf(keys, q[1])
                 IN  prev[p[1]][p[2]]]

\* MultiPassStrategy.getBackEdgeValues and ConvergenceStrategy.getBackEdgeValues;
\* keys is the insertion order of the Map previous: of two fields that give the
\* same key, the one set last stays
ScanBackEdgeValues(iter, previous, keys) ==
    IF iter = 1 \/ previous = None
    THEN EmptyRecord
    ELSE LET prev == previous[1]
             fields == UNION {{<<n, f>> : f \in {x \in DOMAIN prev[n] : IsNumber(prev[n][x])}} :
                                n \in DOMAIN prev}
         IN  [k \in {BackEdgeKey(p[1], p[2]) : p \in fields} |->
                 LET p == CHOOSE q \in fields :
                              /\ BackEdgeKey(q[1], q[2]) = k
                              /\ \A r \in fields :
                                    BackEdgeKey(r[1], r[2]) = k =>
                                        IndexOf(keys, r[1]) <= IndexOf(keys, q[1])
                 IN  prev[p[1]][p[2]]]

\* SinglePass scanning the previous outputs like the other two strategies
getBackEdgeValues_AlwaysScan(s, iter, previous, keys) ==
    ScanBackEdgeValues(iter, previous, keys)

getBackEdgeValues(s, iter, previous, keys) ==
    IF s.kind = "SinglePass" THEN EmptyRecord ELSE ScanBackEdgeValues(iter, previous, keys)

\* the final size comparison inverted: equal sizes count as a mismatch
checkConvergence_SizeCheckInverted(threshold, previous, current) ==
    /\ \A nodeId \in DOMAIN current :
          /\ nodeId \in DOMAIN previous
          /\ \A portId \in DOMAIN current[nodeId] :
                IsNumber(current[nodeId][portId]) =>
                    /\ portId \in DOMAIN previous[nodeId]
                    /\ IsNumber(previous[nodeId][portId])
                    /\ ~(Abs(current[nodeId][portId] - previous[nodeId][portId]) >= threshold)
    /\ Cardinality(DOMAIN previous) # Cardinality(DOMAIN current)

\* a change equal to the threshold counted as converged
checkConvergence_ThresholdExclusive(threshold, previous, current) ==
    /\ \A nodeId \in DOMAIN current :
          /\ nodeId \in DOMAIN previous
          /\ \A portId \in DOMAIN current[nodeId] :
                IsNumber(current[nodeId][portId]) =>
                    /\ portId \in DOMAIN previous[nodeId]
                    /\ IsNumber(previous[nodeId][portId])
                    /\ ~(Abs(current[nodeId][portId] - previous[nodeId][portId]) > threshold)
    /\ Cardinality(DOMAIN previous) = Cardinality(DOMAIN current)

\* ConvergenceStrategy.checkConvergence
checkConvergence(threshold, previous, current) ==
    /\ \A nodeId \in DOMAIN current :
          /\ nodeId \in DOMAIN previous
          /\ \A portId \in DOMAIN current[nodeId] :
                IsNumber(current[nodeId][portId]) =>
                    /\ portId \in DOMAIN previous[nodeId]
                    /\ IsNumber(previous[nodeId][portId])
                    /\ ~(Abs(current[nodeId][portId] - previous[nodeId][portId]) >= threshold)
    /\ Cardinality(DOMAIN previous) = Cardinality(DOMAIN current)

\* SinglePass continuing while iteration <= 1
shouldContinue_Inclusive(s, stored, iter, results) ==
    CASE s.kind = "SinglePass" ->
            [continue |-> iter <= 1, previousResults |-> stored]
      [] s.kind = "MultiPass" ->
            [continue |-> iter < s.maxIterations, previousResults |-> stored]
      [] s.kind = "Convergence" ->
            IF iter >= s.maxIterations
            THEN [continue |-> FALSE, previousResults |-> stored]
            ELSE IF stored = None
            THEN [continue |-> TRUE, previousResults |-> Some(results)]
            ELSE [continue |-> ~checkConvergence(s.threshold, stored[1], results),
                  previousResults |-> Some(results)]

\* MultiPass continuing while iteration <= maxIterations
shouldContinue_MultiPassInclusive(s, stored, iter, results) ==
    CASE s.kind = "SinglePass" ->
            [continue |-> iter < 1, previousResults |-> stored]
      [] s.kind = "MultiPass" ->
            [continue |-> iter <= s.maxIterations, previousResults |-> stored]
      [] s.kind = "Convergence" ->
            IF iter >= s.maxIterations
            THEN [continue |-> FALSE, previousResults |-> stored]
            ELSE IF stored = None
            THEN [continue |-> TRUE, previousResults |-> Some(results)]
            ELSE [continue |-> ~checkConvergence(s.threshold, stored[1], results),
                  previousResults |-> Some(results)]

\* Convergence stopping only once the iteration is beyond the cap
shouldContinue_ConvergenceCapExclusive(s, stored, iter, results) ==
    CASE s.kind = "SinglePass" ->
            [continue |-> iter < 1, previousResults |-> stored]
      [] s.kind = "MultiPass" ->
            [continue |-> iter < s.maxIterations, previousResults |-> stored]
      [] s.kind = "Convergence" ->
            IF iter > s.maxIterations
            THEN [continue |-> FALSE, previousResults |-> stored]
            ELSE IF stored = None
            THEN [continue |-> TRUE, previousResults |-> Some(results)]
            ELSE [continue |-> ~checkConvergence(s.threshold, stored[1], results),
                  previousResults |-> Some(results)]

\* shouldContinue: the verdict and the strategy's previousResults field afterwards
shouldContinue(s, stored, iter, results) ==
    CASE s.kind = "SinglePass" ->
            [continue |-> iter < 1, previousResults |-> stored]
      [] s.kind = "MultiPass" ->
            [continue |-> iter < s.maxIterations, previousResults |-> stored]
      [] s.kind = "Convergence" ->
            IF iter >= s.maxIterations
            THEN [continue |-> FALSE, previousResults |-> stored]
            ELSE IF stored = None
            THEN [continue |-> TRUE, previousResults |-> Some(results)]
            ELSE [continue |-> ~checkConvergence(s.threshold, stored[1], results),
                  previousResults |-> Some(results)]

-----------------------------------------------------------------------------
(* nodes: the calculate functions *)

\* node.calculate(inputValues, ctx): the record returned and the state slot afterwards
calculate(node, inputs, state) ==
    IF node.type = "variable"
    THEN LET delta == IF "delta" \in DOMAIN inputs THEN inputs["delta"] ELSE 0
         IN  [outputs |-> [delta |-> delta],
              state |-> [value |-> state.value + delta]]
    ELSE [outputs |-> [delta |-> node.outputValue], state |-> state]

\* Object.values(ports).find(port => port.id === id), as an optional
FindPort(ports, id) ==
    LET at == IndexOf([i \in 1..Len(ports) |-> ports[i].id], id)
    IN  IF at = 0 THEN None ELSE Some(ports[at])

-----------------------------------------------------------------------------
(* engine/CLDEngine.ts *)

\* the state map started as a copy of the initialState argument
InitialStateMap_CopiesArgument(g, initial) ==
    [id \in Range(NodeKeys(g)) \cup (IF initial = None THEN {} ELSE DOMAIN initial[1]) |->
        IF initial # None /\ id \in DOMAIN initial[1]
        THEN initial[1][id]
        ELSE GetNode(g, id).state]

\* the stateMap built at the start of execute
InitialStateMap(g, initial) ==
    [id \in Range(NodeKeys(g)) |->
        IF initial # None /\ id \in DOMAIN initial[1]
        THEN initial[1][id]
        ELSE GetNode(g, id).state]

\* the value one incoming edge contributes: forward edges read this iteration's outputs
ForwardEdgeValue(g, edge, currentOutputs) ==
    IF edge.fromNodeId \notin DOMAIN currentOutputs
    THEN 0
    ELSE IF ~HasNode(g, edge.fromNodeId)
    THEN 0
    ELSE LET outputPort == FindPort(GetNode(g, edge.fromNodeId).outputs, edge.fromPortId)
             sourceOutputs == currentOutputs[edge.fromNodeId]
         IN  IF outputPort = None
             THEN 0
             ELSE IF outputPort[1].name \in DOMAIN sourceOutputs
                      /\ IsNumber(sourceOutputs[outputPort[1].name])
             THEN sourceOutputs[outputPort[1].name]
             ELSE 0

\* back edges read the strategy's back-edge values
BackEdgeValue(edge, backValues) ==
    LET backEdgeKey == BackEdgeKey(edge.fromNodeId, edge.fromPortId)
    IN  IF backEdgeKey \in DOMAIN backValues THEN backValues[backEdgeKey] ELSE 0

\* the comparison inverted
isBackEdge_Inverted(sourceNodeIndex, currentNodeIndex) == sourceNodeIndex < currentNodeIndex

\* sourceNodeIndex > currentNodeIndex
isBackEdge(sourceNodeIndex, currentNodeIndex) == sourceNodeIndex > currentNodeIndex

\* the for-loop of gatherInputs assigning the edge value instead of adding it
RECURSIVE GatherLoop_Overwrite(_, _, _, _, _, _, _, _)
GatherLoop_Overwrite(acc, node, g, incomingEdges, i, currentOutputs, backValues, execOrder) ==
    IF i > Len(incomingEdges) \/ acc.error # None
    THEN acc
    ELSE LET edge == incomingEdges[i]
             inputPort == FindPort(node.inputs, edge.toPortId)
             currentNodeIndex == IndexOf(execOrder, node.id)
             sourceNodeIndex == IndexOf(execOrder, edge.fromNodeId)
         IN  IF inputPort = None
             THEN GatherLoop_Overwrite(acc, node, g, incomingEdges, i + 1,
                             currentOutputs, backValues, execOrder)
             ELSE IF sourceNodeIndex = 0
             THEN [acc EXCEPT !.error =
                      Some("Source node \"" \o edge.fromNodeId
                           \o "\" not found in execution order")]
             ELSE LET back == isBackEdge(sourceNodeIndex, currentNodeIndex)
                      edgeValue == IF back
                                   THEN BackEdgeValue(edge, backValues)
                                   ELSE ForwardEdgeValue(g, edge, currentOutputs)
                      name == inputPort[1].name
                      before == IF name \in DOMAIN acc.inputValues
                                THEN acc.inputValues[name] ELSE 0
                  IN  GatherLoop_Overwrite(
                          [acc EXCEPT
                             !.inputValues = Put(@, name, edgeValue),
                             !.resolved = Append(@, [edge |-> edge, isBackEdge |-> back,
                                                     edgeValue |-> edgeValue])],
                          node, g, incomingEdges, i + 1,
                          currentOutputs, backValues, execOrder)

\* the for-loop of gatherInputs over the incoming edges
RECURSIVE GatherLoop(_, _, _, _, _, _, _, _)
GatherLoop(acc, node, g, incomingEdges, i, currentOutputs, backValues, execOrder) ==
    IF i > Len(incomingEdges) \/ acc.error # None
    THEN acc
    ELSE LET edge == incomingEdges[i]
             inputPort == FindPort(node.inputs, edge.toPortId)
             currentNodeIndex == IndexOf(execOrder, node.id)
             sourceNodeIndex == IndexOf(execOrder, edge.fromNodeId)
         IN  IF inputPort = None
             THEN GatherLoop(acc, node, g, incomingEdges, i + 1,
                             currentOutputs, backValues, execOrder)
             ELSE IF sourceNodeIndex = 0
             THEN [acc EXCEPT !.error =
                      Some("Source node \"" \o edge.fromNodeId
                           \o "\" not found in execution order")]
             ELSE LET back == isBackEdge(sourceNodeIndex, currentNodeIndex)
                      edgeValue == IF back
                                   THEN BackEdgeValue(edge, backValues)
                                   ELSE ForwardEdgeValue(g, edge, currentOutputs)
                      name == inputPort[1].name
                      before == IF name \in DOMAIN acc.inputValues
                                THEN acc.inputValues[name] ELSE 0
                  IN  GatherLoop(
                          [acc EXCEPT
                             !.inputValues = Put(@, name, before + edgeValue),
                             !.resolved = Append(@, [edge |-> edge, isBackEdge |-> back,
                                                     edgeValue |-> edgeValue])],
                          node, g, incomingEdges, i + 1,
                          currentOutputs, backValues, execOrder)

\* inputValues started with a 0 for every input port of the node
gatherInputs_ZeroFilled(nodeId, node, g, currentOutputs, backValues, execOrder) ==
    LET incomingEdges == SelectSeq(g.edges, LAMBDA e : e.toNodeId = nodeId)
        names == {node.inputs[i].name : i \in 1..Len(node.inputs)}
        start == [inputValues |-> [k \in names |-> 0], resolved |-> <<>>, error |-> None]
    IN  IF IndexOf(execOrder, nodeId) = 0
        THEN [start EXCEPT !.error =
                 Some("Node \"" \o nodeId \o "\" not found in execution order")]
        ELSE GatherLoop(start, node, g, incomingEdges, 1,
                        currentOutputs, backValues, execOrder)

gatherInputs(nodeId, node, g, currentOutputs, backValues, execOrder) ==
    LET incomingEdges == SelectSeq(g.edges, LAMBDA e : e.toNodeId = nodeId)
        start == [inputValues |-> EmptyRecord, resolved |-> <<>>, error |-> None]
    IN  IF IndexOf(execOrder, nodeId) = 0
        THEN [start EXCEPT !.error =
                 Some("Node \"" \o nodeId \o "\" not found in execution order")]
        ELSE GatherLoop(start, node, g, incomingEdges, 1,
                        currentOutputs, backValues, execOrder)

-----------------------------------------------------------------------------
(* Graph.ts: validateGraph *)

\* validatePorts: the first violation among one node's ports of one role, if any;
\* seenIds is the set the caller passes in
RECURSIVE validatePorts(_, _, _, _, _)
validatePorts(nodeId, expectedKind, ports, seenIds, i) ==
    IF i > Len(ports)
    THEN [error |-> None, seenIds |-> seenIds]
    ELSE IF ports[i].kind # expectedKind
    THEN [error |-> Some([check |-> "kind", nodeId |-> nodeId, portId |-> ports[i].id]),
          seenIds |-> seenIds]
    ELSE IF ports[i].id \in seenIds
    THEN [error |-> Some([check |-> "duplicate", nodeId |-> nodeId, portId |-> ports[i].id]),
          seenIds |-> seenIds]
    ELSE validatePorts(nodeId, expectedKind, ports, seenIds \cup {ports[i].id}, i + 1)

\* the first loop of validateGraph with one Set of seen ids for both roles of a node
RECURSIVE validateNodes_SharedSeenIds(_, _)
validateNodes_SharedSeenIds(g, i) ==
    IF i > Len(g.nodes)
    THEN None
    ELSE LET node == g.nodes[i]
             ins == validatePorts(node.id, "input", node.inputs, {}, 1)
             outs == validatePorts(node.id, "output", node.outputs, ins.seenIds, 1)
         IN  IF ins.error # None THEN ins.error
             ELSE IF outs.error # None THEN outs.error
             ELSE validateNodes_SharedSeenIds(g, i + 1)

\* the first loop of validateGraph: every node's input ports, then its output ports
RECURSIVE validateNodes(_, _)
validateNodes(g, i) ==
    IF i > Len(g.nodes)
    THEN None
    ELSE LET node == g.nodes[i]
             ins == validatePorts(node.id, "input", node.inputs, {}, 1)
             outs == validatePorts(node.id, "output", node.outputs, {}, 1)
         IN  IF ins.error # None THEN ins.error
             ELSE IF outs.error # None THEN outs.error
             ELSE validateNodes(g, i + 1)

\* the second loop of validateGraph: every edge's two nodes, then its two ports
RECURSIVE validateEdges(_, _)
validateEdges(g, i) ==
    IF i > Len(g.edges)
    THEN None
    ELSE LET edge == g.edges[i]
         IN  IF ~HasNode(g, edge.fromNodeId)
             THEN Some([check |-> "fromNodeId", edgeId |-> edge.id, id |-> edge.fromNodeId])
             ELSE IF ~HasNode(g, edge.toNodeId)
             THEN Some([check |-> "toNodeId", edgeId |-> edge.id, id |-> edge.toNodeId])
             ELSE IF ~\E p \in Range(GetNode(g, edge.fromNodeId).outputs) :
                          p.id = edge.fromPortId
             THEN Some([check |-> "fromPortId", edgeId |-> edge.id, id |-> edge.fromPortId])
             ELSE IF ~\E p \in Range(GetNode(g, edge.toNodeId).inputs) :
                          p.id = edge.toPortId
             THEN Some([check |-> "toPortId", edgeId |-> edge.id, id |-> edge.toPortId])
             ELSE validateEdges(g, i + 1)

\* validateGraph(graph): the error thrown, or None when it returns
validateGraph(g) ==
    LET nodesError == validateNodes(g, 1)
    IN  IF nodesError # None THEN nodesError ELSE validateEdges(g, 1)

-----------------------------------------------------------------------------
(* Objects behind Graph values: a Graph is { nodes: Map, edges: array }, two
   references into the heap; several Graph values may share one object *)

\* no Map, no array and no Graph value allocated yet
EmptyHeap == [maps |-> <<>>, arrays |-> <<>>, graphs |-> <<>>, snapshots |-> <<>>,
              last |-> [op |-> "none"]]

\* the Graph value a host holds as its i-th: the contents of its two objects
Deref(h, i) ==
    [nodes |-> h.maps[h.graphs[i].nodes], edges |-> h.arrays[h.graphs[i].edges]]

\* a new Graph value over a Map object and an array object of the heap
NewGraph(h, mapRef, arrayRef) ==
    [h EXCEPT !.graphs = Append(@, [nodes |-> mapRef, edges |-> arrayRef])]

\* createGraph(): a new empty Map and a new empty array
HeapCreateGraph(h) ==
    LET h1 == [h EXCEPT !.maps = Append(@, createGraph.nodes),
                        !.arrays = Append(@, createGraph.edges)]
    IN  [NewGraph(h1, Len(h1.maps), Len(h1.arrays)) EXCEPT
            !.last = [op |-> "createGraph"]]

\* addNode setting the node in the Map of the graph it is given
HeapAddNode_InPlace(h, i, node) ==
    LET g == Deref(h, i)
        called == [op |-> "addNode", input |-> i, id |-> node.id,
                   graphsBefore |-> Len(h.graphs)]
    IN  IF HasNode(g, node.id)
        THEN [h EXCEPT !.last = called @@ [threw |-> TRUE]]
        ELSE LET h1 == [h EXCEPT !.maps[h.graphs[i].nodes] = addNode(g, node).nodes,
                                 !.arrays = Append(@, g.edges)]
             IN  [NewGraph(h1, h.graphs[i].nodes, Len(h1.arrays)) EXCEPT
                     !.last = called @@ [threw |-> FALSE]]

\* addNode without the duplicate test: Map.set replaces the entry of a known id
HeapAddNode_Overwrites(h, i, node) ==
    LET g == Deref(h, i)
        called == [op |-> "addNode", input |-> i, id |-> node.id,
                   graphsBefore |-> Len(h.graphs)]
        nextNodes == IF HasNode(g, node.id)
                     THEN [k \in 1..Len(g.nodes) |->
                              IF g.nodes[k].id = node.id THEN node ELSE g.nodes[k]]
                     ELSE addNode(g, node).nodes
        h1 == [h EXCEPT !.maps = Append(@, nextNodes),
                        !.arrays = Append(@, g.edges)]
    IN  [NewGraph(h1, Len(h1.maps), Len(h1.arrays)) EXCEPT
            !.last = called @@ [threw |-> FALSE]]

\* addNode(graph, node) on the heap: the Map is copied, then tested for the id,
\* then set; the edges are sliced.  After a throw the copy is unreachable.
HeapAddNode(h, i, node) ==
    LET g == Deref(h, i)
        called == [op |-> "addNode", input |-> i, id |-> node.id,
                   graphsBefore |-> Len(h.graphs)]
    IN  IF HasNode(g, node.id)
        THEN [h EXCEPT !.last = called @@ [threw |-> TRUE]]
        ELSE LET h1 == [h EXCEPT !.maps = Append(@, addNode(g, node).nodes),
                                 !.arrays = Append(@, g.edges)]
             IN  [NewGraph(h1, Len(h1.maps), Len(h1.arrays)) EXCEPT
                     !.last = called @@ [threw |-> FALSE]]

\* addEdge(graph, edge) on the heap: the Map object is shared with the input
\* graph, the edges are spread into a new array
HeapAddEdge(h, i, edge) ==
    LET g == Deref(h, i)
        h1 == [h EXCEPT !.arrays = Append(@, addEdge(g, edge).edges)]
    IN  [NewGraph(h1, h.graphs[i].nodes, Len(h1.arrays)) EXCEPT
            !.last = [op |-> "addEdge", input |-> i, edge |-> edge,
                      graphsBefore |-> Len(h.graphs)]]

\* the contents of the newest Graph value recorded when it is returned
Snapshot(h) ==
    IF Len(h.graphs) > Len(h.snapshots)
    THEN [h EXCEPT !.snapshots = Append(@, Deref(h, Len(h.graphs)))]
    ELSE h

-----------------------------------------------------------------------------
(* ExecutionContext.ts: BasicExecutionContext over a shared state map *)

\* new BasicExecutionContext(nodeId, iteration, stateMap): the fields of the object;
\* the Map is the one held in the variable stateMap
BasicExecutionContext(nodeId, iter) == [nodeId |-> nodeId, iteration |-> iter]

\* this.stateMap.get(this.nodeId): undefined (None) when the node has no entry
getState(ctx, map) ==
    IF ctx.nodeId \in DOMAIN map THEN Some(map[ctx.nodeId]) ELSE None

\* a setState that installs a Map holding nothing but its own entry
setState_ReplacesMap(ctx, map, next) ==
    Put(EmptyRecord, ctx.nodeId, next)

\* this.stateMap.set(this.nodeId, next)
setState(ctx, map, next) ==
    Put(map, ctx.nodeId, next)

-----------------------------------------------------------------------------
(* The state machine *)

NoStrategy == [kind |-> "none"]

Init ==
    /\ graph = createGraph
    /\ pc = "idle"
    /\ order = None
    /\ strategy = NoStrategy
    /\ stratPrev = None
    /\ stateMap = EmptyRecord
    /\ outputs = EmptyRecord
    /\ iteration = 0
    /\ previousResults = None
    /\ executionOrder = <<>>
    /\ backEdgeValues = EmptyRecord
    /\ currentResults = EmptyRecord
    /\ pos = 0
    /\ resolved = <<>>
    /\ inputValues = EmptyRecord
    /\ calls = EmptyRecord
    /\ history = <<>>
    /\ result = None
    /\ initialState = None
    /\ runs = 0
    /\ heap = EmptyHeap
    /\ contexts = <<>>
    /\ lastCall = [op |-> "none"]

\* graph = addNode(graph, node); a duplicate id throws and leaves the graph as it was
AddNodeFrom(catalogue) ==
    \E node \in catalogue :
        /\ pc = "idle"
        /\ ~HasNode(graph, node.id)
        /\ graph' = addNode(graph, node)
        /\ UNCHANGED <<pc, order>>
        /\ UNCHANGED runVars

\* graph = addEdge(graph, edge); no reference is validated
AddEdgeOver(ids) ==
    \E fromNodeId \in ids, toNodeId \in ids, fromPortId \in PortIds, toPortId \in PortIds :
        /\ pc = "idle"
        /\ Len(graph.edges) < MaxEdges
        /\ graph' = addEdge(graph, Edge("e" \o ToString(Len(graph.edges) + 1),
                                         fromNodeId, fromPortId, toNodeId, toPortId))
        /\ UNCHANGED <<pc, order>>
        /\ UNCHANGED runVars

AddNode == AddNodeFrom(NodeCatalogue)

AddEdge == AddEdgeOver(NodeIds)

\* execute(graph, initial): the code before the main loop
ExecuteBody(initial) ==
    /\ pc' = "loop"
    /\ initialState' = initial
    /\ runs' = runs + 1
    /\ stateMap' = InitialStateMap(graph, initial)
    /\ outputs' = EmptyRecord
    /\ iteration' = 0
    /\ previousResults' = None
    /\ calls' = [id \in Range(NodeKeys(graph)) |-> 0]
    /\ history' = <<>>
    /\ contexts' = <<>>
    /\ lastCall' = [op |-> "execute", initialState |-> initial,
                    earlier |-> IF pc = "done"
                                THEN Some([initialState |-> initialState,
                                           result |-> result[1]])
                                ELSE None]
    /\ UNCHANGED <<graph, order, executionOrder, backEdgeValues, currentResults,
                   pos, resolved, inputValues, result, heap>>

\* new CLDEngine(s).execute(graph)
Execute ==
    \E s \in Strategies :
        /\ pc = "idle"
        /\ strategy' = s
        /\ stratPrev' = None
        /\ ExecuteBody(None)

\* the state map built again at the top of every pass
BeginIteration_Reseed ==
    /\ pc = "loop"
    /\ iteration' = iteration + 1
    /\ executionOrder' = determineExecutionOrder(strategy, graph)
    /\ backEdgeValues' = getBackEdgeValues(strategy, iteration + 1, previousResults,
                                         executionOrder)
    /\ currentResults' = EmptyRecord
    /\ pos' = 1
    /\ pc' = "node"
    /\ stateMap' = InitialStateMap(graph, initialState)
    /\ UNCHANGED <<graph, order, strategy, stratPrev, outputs, previousResults,
                   resolved, inputValues, calls, history, result>>
    /\ UNCHANGED <<initialState, runs, heap, contexts, lastCall>>

\* top of the while loop: iteration++, the order and the back-edge values
\* getBackEdgeValues asked with the number of the pass that has just ended
BeginIteration_DefaultsOfPassBefore ==
    /\ pc = "loop"
    /\ iteration' = iteration + 1
    /\ executionOrder' = determineExecutionOrder(strategy, graph)
    /\ backEdgeValues' = getBackEdgeValues(strategy, iteration, previousResults,
                                         executionOrder)
    /\ currentResults' = EmptyRecord
    /\ pos' = 1
    /\ pc' = "node"
    /\ UNCHANGED <<graph, order, strategy, stratPrev, stateMap, outputs, previousResults,
                   resolved, inputValues, calls, history, result>>
    /\ UNCHANGED <<initialState, runs, heap, contexts, lastCall>>

BeginIteration ==
    /\ pc = "loop"
    /\ iteration' = iteration + 1
    /\ executionOrder' = determineExecutionOrder(strategy, graph)
    /\ backEdgeValues' = getBackEdgeValues(strategy, iteration + 1, previousResults,
                                         executionOrder)
    /\ currentResults' = EmptyRecord
    /\ pos' = 1
    /\ pc' = "node"
    /\ UNCHANGED <<graph, order, strategy, stratPrev, stateMap, outputs, previousResults,
                   resolved, inputValues, calls, history, result>>
    /\ UNCHANGED <<initialState, runs, heap, contexts, lastCall>>

\* one round of the for-loop with a state map that is the caller's initialState Map
ExecNode_WritesCallerMap ==
    /\ pc = "node"
    /\ pos <= Len(executionOrder)
    /\ LET nodeId == executionOrder[pos]
       IN  IF ~HasNode(graph, nodeId)
           THEN /\ pc' = "error"
                /\ result' = Some([error |-> "Node \"" \o nodeId \o "\" not found in graph"])
                /\ UNCHANGED <<stateMap, outputs, currentResults, pos, resolved,
                               inputValues, calls, initialState, contexts>>
           ELSE LET node == GetNode(graph, nodeId)
                    gathered == gatherInputs(nodeId, node, graph, currentResults,
                                             backEdgeValues, executionOrder)
                    computed == calculate(node, gathered.inputValues, stateMap[nodeId])
                IN  IF gathered.error # None
                    THEN /\ pc' = "error"
                         /\ result' = Some([error |-> gathered.error[1]])
                         /\ UNCHANGED <<stateMap, outputs, currentResults, pos, resolved,
                                        inputValues, calls, initialState, contexts>>
                    ELSE /\ resolved' = gathered.resolved
                         /\ inputValues' = gathered.inputValues
                         /\ contexts' = Append(contexts,
                                               BasicExecutionContext(nodeId, iteration))
                         /\ stateMap' = [stateMap EXCEPT ![nodeId] = computed.state]
                         /\ initialState' = IF initialState = None THEN None
                                           ELSE Some([stateMap EXCEPT
                                                         ![nodeId] = computed.state])
                         /\ currentResults' = Put(currentResults, nodeId, computed.outputs)
                         /\ outputs' = Put(outputs, nodeId, computed.outputs)
                         /\ calls' = [calls EXCEPT ![nodeId] = @ + 1]
                         /\ pos' = pos + 1
                         /\ UNCHANGED <<pc, result>>
    /\ UNCHANGED <<graph, order, strategy, stratPrev, iteration, previousResults,
                   executionOrder, backEdgeValues, history>>
    /\ UNCHANGED <<runs, heap, lastCall>>

\* one round of the for-loop over executionOrder
ExecNode ==
    /\ pc = "node"
    /\ pos <= Len(executionOrder)
    /\ LET nodeId == executionOrder[pos]
       IN  IF ~HasNode(graph, nodeId)
           THEN /\ pc' = "error"
                /\ result' = Some([error |-> "Node \"" \o nodeId \o "\" not found in graph"])
                /\ UNCHANGED <<stateMap, outputs, currentResults, pos, resolved,
                               inputValues, calls, contexts>>
           ELSE LET node == GetNode(graph, nodeId)
                    gathered == gatherInputs(nodeId, node, graph, currentResults,
                                             backEdgeValues, executionOrder)
                    computed == calculate(node, gathered.inputValues, stateMap[nodeId])
                IN  IF gathered.error # None
                    THEN /\ pc' = "error"
                         /\ result' = Some([error |-> gathered.error[1]])
                         /\ UNCHANGED <<stateMap, outputs, currentResults, pos, resolved,
                                        inputValues, calls, contexts>>
                    ELSE /\ resolved' = gathered.resolved
                         /\ inputValues' = gathered.inputValues
                         /\ contexts' = Append(contexts,
                                               BasicExecutionContext(nodeId, iteration))
                         /\ stateMap' = [stateMap EXCEPT ![nodeId] = computed.state]
                         /\ currentResults' = Put(currentResults, nodeId, computed.outputs)
                         /\ outputs' = Put(outputs, nodeId, computed.outputs)
                         /\ calls' = [calls EXCEPT ![nodeId] = @ + 1]
                         /\ pos' = pos + 1
                         /\ UNCHANGED <<pc, result>>
    /\ UNCHANGED <<graph, order, strategy, stratPrev, iteration, previousResults,
                   executionOrder, backEdgeValues, history>>
    /\ UNCHANGED <<initialState, runs, heap, lastCall>>

\* the result built from previousResults as it was before this pass ended
EndIteration_ReturnsPrevious ==
    /\ pc = "node"
    /\ pos > Len(executionOrder)
    /\ LET verdict == shouldContinue(strategy, stratPrev, iteration, currentResults)
       IN  /\ previousResults' = Some(currentResults)
           /\ history' = Append(history, currentResults)
           /\ stratPrev' = verdict.previousResults
           /\ IF verdict.continue
              THEN /\ pc' = "loop"
                   /\ UNCHANGED result
              ELSE /\ pc' = "done"
                   /\ result' = Some([state |-> stateMap,
                                      outputs |-> (IF previousResults = None
                                                   THEN EmptyRecord
                                                   ELSE previousResults[1]),
                                      iterations |-> iteration])
    /\ UNCHANGED <<graph, order, strategy, stateMap, outputs, iteration, executionOrder,
                   backEdgeValues, currentResults, pos, resolved, inputValues, calls>>
    /\ UNCHANGED <<initialState, runs, heap, contexts, lastCall>>

\* after the for-loop: remember the results and ask the strategy whether to go on
EndIteration ==
    /\ pc = "node"
    /\ pos > Len(executionOrder)
    /\ LET verdict == shouldContinue(strategy, stratPrev, iteration, currentResults)
       IN  /\ previousResults' = Some(currentResults)
           /\ history' = Append(history, currentResults)
           /\ stratPrev' = verdict.previousResults
           /\ IF verdict.continue
              THEN /\ pc' = "loop"
                   /\ UNCHANGED result
              ELSE /\ pc' = "done"
                   /\ result' = Some([state |-> stateMap, outputs |-> outputs,
                                      iterations |-> iteration])
    /\ UNCHANGED <<graph, order, strategy, stateMap, outputs, iteration, executionOrder,
                   backEdgeValues, currentResults, pos, resolved, inputValues, calls>>
    /\ UNCHANGED <<initialState, runs, heap, contexts, lastCall>>

Next ==
    \/ AddNode
    \/ AddEdge
    \/ Execute
    \/ BeginIteration
    \/ ExecNode
    \/ EndIteration

Spec == Init /\ [][Next]_vars

-----------------------------------------------------------------------------
(* Graph theory used to state the properties (independent of the analyzer) *)

GraphNodes(g) == Range(NodeKeys(g))

\* the edges whose two endpoints are nodes of the graph
LinkedEdges(g) ==
    {e \in Range(g.edges) : e.fromNodeId \in GraphNodes(g) /\ e.toNodeId \in GraphNodes(g)}

Successors(g, S) == {e.toNodeId : e \in {x \in LinkedEdges(g) : x.fromNodeId \in S}}

RECURSIVE Closure(_, _)
Closure(g, S) ==
    LET T == S \cup Successors(g, S) IN IF T = S THEN S ELSE Closure(g, T)

\* b is reachable from a along at least one edge
Reaches(g, a, b) == b \in Closure(g, Successors(g, {a}))

SameComponent(g, a, b) == a = b \/ (Reaches(g, a, b) /\ Reaches(g, b, a))

ComponentOf(g, a) == {b \in GraphNodes(g) : SameComponent(g, a, b)}

Acyclic(g) == \A n \in GraphNodes(g) : ~Reaches(g, n, n)

\* position of a node id in the order of the running iteration (0: not in it)
Position(id) == IndexOf(executionOrder, id)

\* the engine has just obtained the order of an iteration from its strategy
OrderComputed == pc = "node" /\ pos = 1

-----------------------------------------------------------------------------
(* C1: for every acyclic graph the order of the built-in strategies places the
   source node of every edge between two nodes of the graph strictly before
   the edge's destination node. *)
C1_AcyclicOrderIsTopological ==
    (OrderComputed /\ Acyclic(graph)) =>
        \A e \in LinkedEdges(graph) :
            /\ Position(e.fromNodeId) > 0
            /\ Position(e.fromNodeId) < Position(e.toNodeId)

\* an acyclic chain INPUT -> A -> B whose nodes were inserted sink first
C1_Witness ==
    /\ OrderComputed
    /\ Acyclic(graph)
    /\ NodeKeys(graph) = <<"B", "A", "INPUT">>
    /\ \E e1, e2 \in LinkedEdges(graph) :
          /\ e1.fromNodeId = "INPUT" /\ e1.toNodeId = "A"
          /\ e2.fromNodeId = "A" /\ e2.toNodeId = "B"
    /\ executionOrder = <<"INPUT", "A", "B">>

(* C2: for every edge whose endpoints lie in different strongly connected
   components, every member of the source's component precedes every member
   of the destination's component in the order. *)
C2_CrossEdgesOrderComponents ==
    OrderComputed =>
        \A e \in LinkedEdges(graph) :
            ~SameComponent(graph, e.fromNodeId, e.toNodeId) =>
                \A m \in ComponentOf(graph, e.fromNodeId) :
                    \A n \in ComponentOf(graph, e.toNodeId) :
                        Position(m) > 0 /\ Position(m) < Position(n)

\* an external INPUT feeding the cycle A <-> B, the cycle inserted first
C2_Witness ==
    /\ OrderComputed
    /\ NodeKeys(graph) = <<"A", "B", "INPUT">>
    /\ SameComponent(graph, "A", "B")
    /\ ~SameComponent(graph, "INPUT", "A")
    /\ \E e \in LinkedEdges(graph) : e.fromNodeId = "INPUT" /\ e.toNodeId = "B"
    /\ Position("INPUT") = 1

(* C3: the members of each strongly connected component occupy consecutive
   positions of the order: no node of another component lies between two
   nodes of one component. *)
C3_ComponentsContiguous ==
    OrderComputed =>
        \A a \in GraphNodes(graph) : \A b \in ComponentOf(graph, a) :
            /\ Position(a) > 0
            /\ \A c \in GraphNodes(graph) :
                  (Position(a) < Position(c) /\ Position(c) < Position(b)) =>
                      SameComponent(graph, a, c)

\* the cycle A <-> B with INPUT inserted between its members and fed by the cycle
C3_Witness ==
    /\ OrderComputed
    /\ NodeKeys(graph) = <<"A", "INPUT", "B">>
    /\ SameComponent(graph, "A", "B")
    /\ ~SameComponent(graph, "INPUT", "A")
    /\ \E e \in LinkedEdges(graph) : e.fromNodeId = "A" /\ e.toNodeId = "INPUT"
    /\ Position("INPUT") = 3

-----------------------------------------------------------------------------
(* The topology analyzer called on graphs whose node ids are any strings *)

AnyIdCatalogue ==
    {createVariableNode("", 0), createVariableNode("A", 0), createVariableNode("B", 0)}

AddAnyNode == AddNodeFrom(AnyIdCatalogue)

AddAnyEdge == AddEdgeOver({n.id : n \in AnyIdCatalogue})

\* order = strategy.determineExecutionOrder(graph), called by the host directly
DetermineOrder ==
    /\ pc = "idle"
    /\ order' = Some(determineExecutionOrder(SinglePassStrategy, graph))
    /\ pc' = "sorted"
    /\ UNCHANGED graph
    /\ UNCHANGED runVars

NextAnyId ==
    \/ AddAnyNode
    \/ AddAnyEdge
    \/ DetermineOrder

SpecAnyId == Init /\ [][NextAnyId]_vars

(* C4: for every graph the returned order is a permutation of the graph's node
   ids: every node id appears exactly once and no other id appears. *)
C4_OrderIsPermutation ==
    pc = "sorted" =>
        /\ Len(order[1]) = Len(graph.nodes)
        /\ Range(order[1]) = GraphNodes(graph)

-----------------------------------------------------------------------------
(* Observations of the running execute call *)

\* the for-loop has just evaluated a node: resolved and inputValues are its inputs
Evaluated == pc = "node" /\ pos > 1

CurrentNode == executionOrder[pos - 1]

\* the number a node's output record holds for one of its output ports, else 0
OutputOnPort(g, record, nodeId, portId) ==
    LET ports == {q \in Range(GetNode(g, nodeId).outputs) : q.id = portId}
    IN  IF \E q \in ports : q.name \in DOMAIN record /\ IsNumber(record[q.name])
        THEN record[(CHOOSE q \in ports : q.name \in DOMAIN record).name]
        ELSE 0

RECURSIVE SumOver(_, _)
SumOver(f, S) ==
    IF S = {} THEN 0 ELSE LET x == CHOOSE y \in S : TRUE IN f[x] + SumOver(f, S \ {x})

\* sum of the final outputs of the sources of the edges into port "delta" of a node
FinalFanIn(g, final, nodeId) ==
    LET into == {i \in 1..Len(g.edges) :
                    g.edges[i].toNodeId = nodeId /\ g.edges[i].toPortId = "delta"}
    IN  SumOver([i \in into |->
                    OutputOnPort(g, final[g.edges[i].fromNodeId],
                                 g.edges[i].fromNodeId, g.edges[i].fromPortId)],
                into)

(* C5: an edge whose source is positioned before its destination delivers the
   numeric value the source computed for that port earlier in the same
   iteration (0 if it produced none); in an acyclic graph every node therefore
   ends with the sum of the final outputs of its sources, whatever the length
   of the chain. *)
C5_ForwardEdgesSameIteration ==
    /\ Evaluated =>
          \A i \in 1..Len(resolved) :
              LET e == resolved[i].edge
              IN  Position(e.fromNodeId) < Position(CurrentNode) =>
                      /\ calls[e.fromNodeId] = iteration
                      /\ resolved[i].edgeValue =
                            OutputOnPort(graph, outputs[e.fromNodeId],
                                         e.fromNodeId, e.fromPortId)
    /\ (pc = "done" /\ Acyclic(graph)) =>
          \A n \in GraphNodes(graph) :
              GetNode(graph, n).type = "variable" =>
                  result[1].outputs[n].delta = FinalFanIn(graph, result[1].outputs, n)

\* second pass over the chain INPUT -> A -> B inserted sink first: B receives A's 1
C5_Witness ==
    /\ Evaluated
    /\ iteration = 2
    /\ CurrentNode = "B"
    /\ NodeKeys(graph) = <<"B", "A", "INPUT">>
    /\ Acyclic(graph)
    /\ \E i \in 1..Len(resolved) :
          /\ resolved[i].edge.fromNodeId = "A"
          /\ Position("A") < Position("B")
          /\ resolved[i].edgeValue = 1

(* C6: under MultiPass and Convergence, in every iteration k >= 2 an edge whose
   source is positioned after its destination delivers the number the source
   output on that port in iteration k-1. *)
C6_BackEdgesPreviousIteration ==
    (Evaluated /\ iteration >= 2 /\ strategy.kind \in {"MultiPass", "Convergence"}) =>
        /\ Len(history) = iteration - 1
        /\ \A i \in 1..Len(resolved) :
              LET e == resolved[i].edge
                  before == history[iteration - 1]
              IN  Position(e.fromNodeId) > Position(CurrentNode) =>
                      /\ e.fromNodeId \in DOMAIN before
                      /\ resolved[i].edgeValue =
                            OutputOnPort(graph, before[e.fromNodeId],
                                         e.fromNodeId, e.fromPortId)

\* third pass: a back edge delivers 2, the source's output of pass 2, not the 1 of pass 1
C6_Witness ==
    /\ Evaluated
    /\ iteration = 3
    /\ strategy.kind = "MultiPass"
    /\ \E i \in 1..Len(resolved) :
          LET e == resolved[i].edge
          IN  /\ Position(e.fromNodeId) > Position(CurrentNode)
              /\ resolved[i].edgeValue = 2
              /\ history[1][e.fromNodeId].delta = 1
              /\ history[2][e.fromNodeId].delta = 2

(* C8: a self-loop edge is resolved as a back edge: it delivers
   backEdgeDefaults["nodeId.portId"] (0 if absent), so from iteration 2 on a
   node receives on it its own output of the preceding iteration. *)
C8_SelfLoopIsBackEdge ==
    Evaluated =>
        \A i \in 1..Len(resolved) :
            LET e == resolved[i].edge
                key == BackEdgeKey(e.fromNodeId, e.fromPortId)
            IN  e.fromNodeId = e.toNodeId =>
                    resolved[i].edgeValue =
                        IF key \in DOMAIN backEdgeValues THEN backEdgeValues[key] ELSE 0

(* C9: in iteration 1 under SinglePass or MultiPass every edge whose source
   follows its destination in the order contributes exactly 0; SinglePass
   returns the empty back-edge mapping for every iteration and every
   previous-output argument. *)
C9_FirstIterationBackEdgesZero ==
    /\ (Evaluated /\ iteration = 1 /\ strategy.kind \in {"SinglePass", "MultiPass"}) =>
          \A i \in 1..Len(resolved) :
              Position(resolved[i].edge.fromNodeId) > Position(CurrentNode) =>
                  resolved[i].edgeValue = 0
    /\ strategy.kind = "SinglePass" =>
          /\ backEdgeValues = EmptyRecord
          /\ \A k \in 1..MaxIterations :
                \A previous \in {None, Some(outputs), Some(currentResults)} :
                    getBackEdgeValues(strategy, k, previous, executionOrder) = EmptyRecord

\* SinglePass on a cycle fed by INPUT: the back edge A -> B is resolved
C9_Witness ==
    /\ Evaluated
    /\ iteration = 1
    /\ strategy.kind = "SinglePass"
    /\ "INPUT" \in DOMAIN outputs
    /\ \E i \in 1..Len(resolved) :
          /\ Position(resolved[i].edge.fromNodeId) > Position(CurrentNode)
          /\ resolved[i].edgeValue = 0

(* C10: an execute call under SinglePass performs exactly one iteration:
   result.iterations = 1 and every node's compute is invoked exactly once. *)
C10_SinglePassOneIteration ==
    strategy.kind = "SinglePass" =>
        /\ iteration <= 1
        /\ \A n \in GraphNodes(graph) : calls[n] <= 1
        /\ pc = "done" =>
              /\ result[1].iterations = 1
              /\ \A n \in GraphNodes(graph) : calls[n] = 1

\* SinglePass returned for a graph with a cycle and a self-loop
C10_Witness ==
    /\ pc = "done"
    /\ strategy.kind = "SinglePass"
    /\ Len(graph.nodes) = 3
    /\ \E e \in LinkedEdges(graph) : e.fromNodeId = e.toNodeId
    /\ \E e \in LinkedEdges(graph) :
          e.fromNodeId # e.toNodeId /\ SameComponent(graph, e.fromNodeId, e.toNodeId)
    /\ result[1].iterations = 1

-----------------------------------------------------------------------------
(* The feedback scenario INPUT(constant 1) -> A -> B -> C -> A *)

FeedbackGraph ==
    LET g0 == createGraph
        g1 == addNode(g0, createConstantNode("INPUT", 1))
        g2 == addNode(g1, createVariableNode("A", 0))
        g3 == addNode(g2, createVariableNode("B", 0))
        g4 == addNode(g3, createVariableNode("C", 0))
        g5 == addEdge(g4, Edge("e0", "INPUT", "delta", "A", "delta"))
        g6 == addEdge(g5, Edge("e1", "A", "delta", "B", "delta"))
        g7 == addEdge(g6, Edge("e2", "B", "delta", "C", "delta"))
    IN  addEdge(g7, Edge("e3", "C", "delta", "A", "delta"))

InitFeedback ==
    /\ graph = FeedbackGraph
    /\ pc = "idle"
    /\ order = None
    /\ strategy = NoStrategy
    /\ stratPrev = None
    /\ stateMap = EmptyRecord
    /\ outputs = EmptyRecord
    /\ iteration = 0
    /\ previousResults = None
    /\ executionOrder = <<>>
    /\ backEdgeValues = EmptyRecord
    /\ currentResults = EmptyRecord
    /\ pos = 0
    /\ resolved = <<>>
    /\ inputValues = EmptyRecord
    /\ calls = EmptyRecord
    /\ history = <<>>
    /\ result = None
    /\ initialState = None
    /\ runs = 0
    /\ heap = EmptyHeap
    /\ contexts = <<>>
    /\ lastCall = [op |-> "none"]

NextFeedback ==
    \/ Execute
    \/ BeginIteration
    \/ ExecNode
    \/ EndIteration

SpecFeedback == InitFeedback /\ [][NextFeedback]_vars

(* C7: in the feedback scenario under MultiPass(3) node A receives 1 in
   iteration 1, 2 in iteration 2 and 3 in iteration 3, and result.iterations
   is 3. *)
C7_FeedbackScenario ==
    strategy = MultiPassStrategy(3) =>
        /\ (Evaluated /\ CurrentNode = "A") => inputValues["delta"] = iteration
        /\ pc = "done" => result[1].iterations = 3

-----------------------------------------------------------------------------
(* Iteration counts *)

(* C11: an execute call under MultiPass(n), n >= 1, performs exactly n
   iterations for every graph and whatever the nodes output:
   result.iterations = n. *)
C11_MultiPassExactlyN ==
    strategy.kind = "MultiPass" =>
        /\ iteration <= strategy.maxIterations
        /\ pc = "done" =>
              /\ result[1].iterations = strategy.maxIterations
              /\ Len(history) = strategy.maxIterations

\* MultiPass(3) returned although passes 2 and 3 produced the same outputs
C11_Witness ==
    /\ pc = "done"
    /\ strategy = MultiPassStrategy(3)
    /\ Len(graph.nodes) >= 2
    /\ Len(history) = 3
    /\ history[2] = history[3]
    /\ result[1].iterations = 3

\* every numeric output field changes by less than threshold from one pass to the next
Stable(threshold, before, after) ==
    \A n \in DOMAIN after :
        \A f \in DOMAIN after[n] :
            IsNumber(after[n][f]) =>
                /\ n \in DOMAIN before
                /\ f \in DOMAIN before[n]
                /\ IsNumber(before[n][f])
                /\ Abs(after[n][f] - before[n][f]) < threshold

\* a Convergence run has returned
ConvergenceDone == pc = "done" /\ strategy.kind = "Convergence"

\* the outputs of the run were stable between every two consecutive passes
AllStable ==
    \A j \in 2..Len(history) : Stable(strategy.threshold, history[j - 1], history[j])

\* the outputs of the run were unstable between every two consecutive passes
NeverStable ==
    \A j \in 2..Len(history) : ~Stable(strategy.threshold, history[j - 1], history[j])

(* C12 as stated: under Convergence(threshold, max), if every numeric output
   field changes by less than threshold between consecutive iterations,
   execute stops before the cap: result.iterations < max. *)
C12_StableStopsBeforeCap ==
    (ConvergenceDone /\ Len(history) >= 2 /\ history[1] # EmptyRecord /\ AllStable) =>
        result[1].iterations < strategy.maxIterations

(* C12 amended: under Convergence(threshold, max) with max >= 3, if every
   numeric output field changes by less than threshold between consecutive
   iterations, execute stops before the cap: result.iterations < max. *)
C12_StableStopsBeforeCapFromThree ==
    (ConvergenceDone /\ strategy.maxIterations >= 3 /\ AllStable) =>
        result[1].iterations < strategy.maxIterations

\* Convergence(1, 3) returned after two passes with equal outputs of INPUT and A
C12_Witness ==
    /\ ConvergenceDone
    /\ strategy = ConvergenceStrategy(1, 3)
    /\ \E e \in LinkedEdges(graph) : e.fromNodeId = "INPUT" /\ e.toNodeId = "A"
    /\ Len(history) = 2
    /\ history[1] = history[2]
    /\ history[2]["A"].delta = 1
    /\ result[1].iterations = 2

-----------------------------------------------------------------------------
(* A host that keeps one engine and calls execute on it repeatedly, with and
   without an initialState argument *)

\* INPUT(constant 1) -> A -> B -> A: A's output grows by 1 in every pass
CycleGraph ==
    LET g0 == createGraph
        g1 == addNode(g0, createConstantNode("INPUT", 1))
        g2 == addNode(g1, createVariableNode("A", 0))
        g3 == addNode(g2, createVariableNode("B", 0))
        g4 == addEdge(g3, Edge("e0", "INPUT", "delta", "A", "delta"))
        g5 == addEdge(g4, Edge("e1", "A", "delta", "B", "delta"))
    IN  addEdge(g5, Edge("e2", "B", "delta", "A", "delta"))

\* INPUT(constant 5) -> A(10) -> B(20), the chain of the engine tests
ChainGraph ==
    LET g0 == createGraph
        g1 == addNode(g0, createConstantNode("INPUT", 5))
        g2 == addNode(g1, createVariableNode("A", 10))
        g3 == addNode(g2, createVariableNode("B", 20))
        g4 == addEdge(g3, Edge("e0", "INPUT", "delta", "A", "delta"))
    IN  addEdge(g4, Edge("e1", "A", "delta", "B", "delta"))

\* INPUT(constant 1) -> A and an edge into A from Z, which is not a node: execute aborts
DanglingGraph ==
    LET g0 == createGraph
        g1 == addNode(g0, createConstantNode("INPUT", 1))
        g2 == addNode(g1, createVariableNode("A", 0))
        g3 == addEdge(g2, Edge("e0", "INPUT", "delta", "A", "delta"))
    IN  addEdge(g3, Edge("e1", "Z", "delta", "A", "delta"))

HostGraphs == {CycleGraph, ChainGraph, DanglingGraph}

\* initialState arguments: absent, for one node, for a node and an id not in the graph
InitialStates ==
    {None,
     Some([A |-> [value |-> 5]]),
     Some([A |-> [value |-> 5], Z |-> [value |-> 7]])}

InitHost ==
    /\ graph \in HostGraphs
    /\ pc = "idle"
    /\ order = None
    /\ strategy = NoStrategy
    /\ stratPrev = None
    /\ stateMap = EmptyRecord
    /\ outputs = EmptyRecord
    /\ iteration = 0
    /\ previousResults = None
    /\ executionOrder = <<>>
    /\ backEdgeValues = EmptyRecord
    /\ currentResults = EmptyRecord
    /\ pos = 0
    /\ resolved = <<>>
    /\ inputValues = EmptyRecord
    /\ calls = EmptyRecord
    /\ history = <<>>
    /\ result = None
    /\ initialState = None
    /\ runs = 0
    /\ heap = EmptyHeap
    /\ contexts = <<>>
    /\ lastCall = [op |-> "none"]

\* engine = new CLDEngine(s); engine.execute(graph, initial)
ExecuteSeeded ==
    \E s \in Strategies, initial \in InitialStates :
        /\ pc = "idle"
        /\ strategy' = s
        /\ stratPrev' = None
        /\ ExecuteBody(initial)

\* engine.execute(graph, initial) once more: the strategy object is the same
ExecuteAgain ==
    \E initial \in InitialStates :
        /\ pc = "done"
        /\ runs < MaxRuns
        /\ UNCHANGED <<strategy, stratPrev>>
        /\ ExecuteBody(initial)

NextHost ==
    \/ ExecuteSeeded
    \/ ExecuteAgain
    \/ BeginIteration
    \/ ExecNode
    \/ EndIteration

SpecHost == InitHost /\ [][NextHost]_vars

(* C13: under Convergence(threshold, max), if the numeric outputs never
   stabilize (in every pair of consecutive iterations some numeric output
   field changes by at least threshold), execute runs exactly max iterations:
   result.iterations = max.  Stated for the cycle INPUT -> A -> B -> A, whose
   output of A changes by 1 >= threshold in every pass. *)
C13_NeverStableRunsToCap ==
    (ConvergenceDone /\ graph = CycleGraph /\ NeverStable) =>
        result[1].iterations = strategy.maxIterations

-----------------------------------------------------------------------------
(* Fan-in *)

\* indices of the graph's edges that terminate at an input port of a node
EdgesInto(g, nodeId, portId) ==
    {i \in 1..Len(g.edges) : g.edges[i].toNodeId = nodeId /\ g.edges[i].toPortId = portId}

\* what one edge into the node just evaluated delivers, from the outputs alone:
\* the back-edge value when the source is later in the order, else the source's
\* output of this pass, which a source at the node's own position has not produced
Delivered(e) ==
    IF Position(e.fromNodeId) > Position(CurrentNode)
    THEN LET key == BackEdgeKey(e.fromNodeId, e.fromPortId)
         IN  IF key \in DOMAIN backEdgeValues THEN backEdgeValues[key] ELSE 0
    ELSE IF Position(e.fromNodeId) < Position(CurrentNode)
    THEN OutputOnPort(graph, outputs[e.fromNodeId], e.fromNodeId, e.fromPortId)
    ELSE 0

(* C14: when k >= 1 edges terminate at the same input port of a node, the value
   passed to the node's compute for that port is the arithmetic sum of the k
   edges' individually resolved values (same-iteration source output for
   forward edges, back-edge default for back edges), parallel edges from the
   same source port being counted once each. *)
C14_FanInIsSum ==
    Evaluated =>
        \A q \in Range(GetNode(graph, CurrentNode).inputs) :
            LET into == EdgesInto(graph, CurrentNode, q.id)
            IN  into # {} =>
                    /\ q.name \in DOMAIN inputValues
                    /\ inputValues[q.name] =
                          SumOver([i \in into |-> Delivered(graph.edges[i])], into)
                    /\ Cardinality({i \in 1..Len(resolved) :
                                        resolved[i].edge.toPortId = q.id})
                          = Cardinality(into)

\* pass 2: A is fed by two parallel edges from INPUT and a third edge from B
C14_Witness ==
    /\ Evaluated
    /\ iteration = 2
    /\ CurrentNode = "A"
    /\ Len(resolved) = 3
    /\ \E i, j \in 1..3 :
          /\ i # j
          /\ resolved[i].edge.fromNodeId = "INPUT"
          /\ resolved[j].edge.fromNodeId = "INPUT"
    /\ \E i \in 1..3 : resolved[i].edge.fromNodeId = "B"
    /\ inputValues["delta"] = 2

\* pass 2: A adds the forward value of INPUT and the back-edge value of B
C14_WitnessMixed ==
    /\ Evaluated
    /\ iteration = 2
    /\ CurrentNode = "A"
    /\ Len(resolved) = 2
    /\ \E i, j \in 1..2 :
          /\ resolved[i].edge.fromNodeId = "INPUT" /\ ~resolved[i].isBackEdge
          /\ resolved[j].edge.fromNodeId = "B" /\ resolved[j].isBackEdge
          /\ resolved[j].edgeValue = 1
    /\ inputValues["delta"] = 2

-----------------------------------------------------------------------------
(* Edges that name missing nodes *)

\* node ids named by an edge that are not nodes of the graph
MissingIds(g) ==
    ({e.fromNodeId : e \in Range(g.edges)} \cup {e.toNodeId : e \in Range(g.edges)})
        \ GraphNodes(g)

(* C15: if any edge of the graph passed to execute names a node id, as its
   source or as its destination, that is absent from the graph or from the
   computed order, execute aborts with an error; such an edge is never
   silently ignored and execute never returns an ExecutionResult for that
   graph. *)
C15_DanglingEdgeAborts ==
    pc = "done" =>
        /\ MissingIds(graph) = {}
        /\ \A e \in Range(graph.edges) :
              Position(e.fromNodeId) # 0 /\ Position(e.toNodeId) # 0

-----------------------------------------------------------------------------
(* The state map of one execute call *)

\* an execute call has started
Started == pc \in {"loop", "node", "done", "error"}

\* the state a node starts the call with
Seed(n) ==
    IF initialState # None /\ n \in DOMAIN initialState[1]
    THEN initialState[1][n]
    ELSE GetNode(graph, n).state

\* sum of the deltas a node has output so far in this call
Accumulated(n) ==
    SumOver([j \in 1..Len(history) |-> history[j][n].delta], 1..Len(history))
        + (IF pc \in {"node", "error"} /\ n \in DOMAIN currentResults
           THEN currentResults[n].delta ELSE 0)

(* C16: the state a node writes with setState in iteration k is exactly what
   its getState returns in iteration k+1, and the final value is what
   result.state holds: the state map is seeded once per execute and never
   re-seeded between iterations, so an accumulator holds its seed plus all
   deltas received so far (constant 1 -> accumulator starting at 0 under
   MultiPass(n) ends with state value n). *)
C16_StatePersistsAcrossIterations ==
    Started =>
        /\ \A n \in GraphNodes(graph) :
              IF GetNode(graph, n).type = "variable"
              THEN stateMap[n] = [value |-> Seed(n).value + Accumulated(n)]
              ELSE stateMap[n] = Seed(n)
        /\ pc = "done" => result[1].state = stateMap

\* INPUT(1) -> A under MultiPass(3): A's final state value is 3
C16_Witness ==
    /\ pc = "done"
    /\ strategy = MultiPassStrategy(3)
    /\ NodeKeys(graph) = <<"INPUT", "A">>
    /\ Len(graph.edges) = 1
    /\ graph.edges[1].fromNodeId = "INPUT" /\ graph.edges[1].toNodeId = "A"
    /\ result[1].state["A"] = [value |-> 3]

(* C17: at the start of execute the state slot of every graph node is the
   caller-supplied initialState entry for that node id if the map has one,
   otherwise the node's declared default state; result.state has exactly one
   entry per graph node id, and initialState entries for ids that are not
   nodes of the graph are ignored. *)
C17_StateSeeding ==
    /\ (pc = "loop" /\ iteration = 0) =>
          /\ DOMAIN stateMap = GraphNodes(graph)
          /\ \A n \in GraphNodes(graph) :
                stateMap[n] =
                    IF initialState # None /\ n \in DOMAIN initialState[1]
                    THEN initialState[1][n]
                    ELSE GetNode(graph, n).state
    /\ Started => DOMAIN stateMap = GraphNodes(graph)
    /\ pc = "done" => DOMAIN result[1].state = GraphNodes(graph)

\* the chain called with entries for A and for Z, which is not a node: A starts at 5,
\* B at its declared 20, and there is no slot for Z
C17_Witness ==
    /\ pc = "loop"
    /\ iteration = 0
    /\ graph = ChainGraph
    /\ initialState = Some([A |-> [value |-> 5], Z |-> [value |-> 7]])
    /\ stateMap["A"] = [value |-> 5]
    /\ stateMap["B"] = [value |-> 20]
    /\ stateMap["INPUT"] = EmptyRecord
    /\ "Z" \notin DOMAIN stateMap

-----------------------------------------------------------------------------
(* The ExecutionResult *)

(* C18: when execute returns under any of the three built-in strategies,
   result.outputs holds for every node of the graph exactly the record that
   node's compute returned in the final iteration (one entry per graph node,
   none left over from an earlier iteration), and result.iterations equals the
   number of passes performed. *)
C18_ResultIsLastIteration ==
    pc = "done" =>
        /\ DOMAIN result[1].outputs = GraphNodes(graph)
        /\ result[1].outputs = history[Len(history)]
        /\ result[1].iterations = Len(history)
        /\ \A n \in GraphNodes(graph) : calls[n] = result[1].iterations

\* three passes over a cycle whose outputs differ from pass to pass
C18_Witness ==
    /\ pc = "done"
    /\ Len(graph.nodes) = 3
    /\ Len(history) = 3
    /\ history[1] # history[2]
    /\ history[2] # history[3]
    /\ result[1].outputs = history[3]
    /\ result[1].iterations = 3

-----------------------------------------------------------------------------
(* A host that builds graphs and keeps every Graph value it was returned *)

engineVars == <<graph, pc, order, strategy, stratPrev, stateMap, outputs, iteration,
                previousResults, executionOrder, backEdgeValues, currentResults, pos,
                resolved, inputValues, calls, history, result, initialState, runs>>

\* node definitions, two of them with the same id
HeapNodes ==
    {createVariableNode("A", 0), createVariableNode("A", 1), createVariableNode("B", 0)}

\* the third edge names a node and ports that no graph of this host has
HeapEdges ==
    {Edge("e1", "A", "delta", "B", "delta"), Edge("e2", "B", "delta", "A", "delta"),
     Edge("e3", "Z", "x", "Z", "y")}

\* g = createGraph()
CallCreateGraph ==
    /\ Len(heap.graphs) < MaxGraphs
    /\ heap' = Snapshot(HeapCreateGraph(heap))
    /\ UNCHANGED <<engineVars, contexts, lastCall>>

\* g2 = addNode(g, node), g any Graph value the host holds
CallAddNode ==
    \E i \in 1..Len(heap.graphs), node \in HeapNodes :
        /\ Len(heap.graphs) < MaxGraphs
        /\ heap' = Snapshot(HeapAddNode(heap, i, node))
        /\ UNCHANGED <<engineVars, contexts, lastCall>>

\* g2 = addEdge(g, edge)
CallAddEdge ==
    \E i \in 1..Len(heap.graphs), edge \in HeapEdges :
        /\ Len(heap.graphs) < MaxGraphs
        /\ heap' = Snapshot(HeapAddEdge(heap, i, edge))
        /\ UNCHANGED <<engineVars, contexts, lastCall>>

NextHeap ==
    \/ CallCreateGraph
    \/ CallAddNode
    \/ CallAddEdge

SpecHeap == Init /\ [][NextHeap]_vars

(* C19: addNode and addEdge never mutate the graph they are given: after
   g2 = addNode(g, n) or g2 = addEdge(g, e), and after any further
   addNode/addEdge applied to g2, the node map (same ids, same insertion
   order, same size) and the edge list of g are unchanged; addNode's result
   has exactly one more node than g. *)
C19_InputGraphNeverMutated ==
    /\ Len(heap.snapshots) = Len(heap.graphs)
    /\ \A i \in 1..Len(heap.graphs) : Deref(heap, i) = heap.snapshots[i]
    /\ (heap.last.op = "addNode" /\ ~heap.last.threw) =>
          Len(Deref(heap, Len(heap.graphs)).nodes)
              = Len(Deref(heap, heap.last.input).nodes) + 1

\* g1 = addNode(g, A), g2 = addEdge(g1, e) shares g1's Map object, g3 = addNode(g2, B):
\* g1 and g2 still hold one node
C19_Witness ==
    /\ Len(heap.graphs) = 4
    /\ heap.graphs[3].nodes = heap.graphs[2].nodes
    /\ heap.last.op = "addNode"
    /\ heap.last.input = 3
    /\ ~heap.last.threw
    /\ Len(Deref(heap, 2).nodes) = 1
    /\ Len(Deref(heap, 3).nodes) = 1
    /\ Len(Deref(heap, 3).edges) = 1
    /\ Len(Deref(heap, 4).nodes) = 2

(* C20: addNode(graph, node) fails with a duplicate-id error whenever graph
   already contains a node with node.id, and in that case the input graph is
   left unchanged and no new graph is produced; it succeeds for every id not
   yet present. *)
C20_AddNodeRejectsDuplicate ==
    heap.last.op = "addNode" =>
        LET input == heap.snapshots[heap.last.input]
        IN  /\ heap.last.threw <=> heap.last.id \in GraphNodes(input)
            /\ heap.last.threw =>
                  /\ Len(heap.graphs) = heap.last.graphsBefore
                  /\ Deref(heap, heap.last.input) = input
            /\ ~heap.last.threw =>
                  /\ Len(heap.graphs) = heap.last.graphsBefore + 1
                  /\ NodeKeys(Deref(heap, Len(heap.graphs)))
                        = Append(NodeKeys(input), heap.last.id)

\* addNode of a second node with id A on a graph that holds A and B threw
C20_Witness ==
    /\ heap.last.op = "addNode"
    /\ heap.last.threw
    /\ heap.last.id = "A"
    /\ Len(heap.graphs) = heap.last.graphsBefore
    /\ NodeKeys(Deref(heap, heap.last.input)) = <<"A", "B">>

-----------------------------------------------------------------------------
(* A host that builds a graph from valid and invalid node definitions and
   validates it *)

\* valid: A, INPUT (no input port), S (no output port); invalid: K (an input port
\* of kind output), D (two output ports with the same id)
ValidationCatalogue ==
    {createVariableNode("A", 0),
     createConstantNode("INPUT", 1),
     [createVariableNode("S", 0) EXCEPT !.outputs = <<>>],
     [createVariableNode("K", 0) EXCEPT
         !.inputs = <<PortDescriptor("delta", "delta", "output")>>],
     [createConstantNode("D", 1) EXCEPT
         !.outputs = <<PortDescriptor("delta", "delta", "output"),
                       PortDescriptor("delta", "copy", "output")>>]}

AddCheckedNode == AddNodeFrom(ValidationCatalogue)

AddCheckedEdge == AddEdgeOver({"A", "INPUT", "S"})

\* validateGraph(graph), returning or throwing
CallValidateGraph ==
    /\ pc = "idle"
    /\ pc' = "validated"
    /\ result' = Some([error |-> validateGraph(graph)])
    /\ UNCHANGED <<graph, order, strategy, stratPrev, stateMap, outputs, iteration,
                   previousResults, executionOrder, backEdgeValues, currentResults, pos,
                   resolved, inputValues, calls, history, initialState, runs, heap, contexts, lastCall>>

NextValidate ==
    \/ AddCheckedNode
    \/ AddCheckedEdge
    \/ CallValidateGraph

SpecValidate == Init /\ [][NextValidate]_vars

\* ids of a sequence of ports
PortIdsOf(ports) == {ports[i].id : i \in 1..Len(ports)}

\* one of the four conditions of an invalid graph holds
Invalid(g) ==
    \/ \E n \in Range(g.nodes) :
          \/ \E q \in Range(n.inputs) : q.kind # "input"
          \/ \E q \in Range(n.outputs) : q.kind # "output"
          \/ \E i, j \in 1..Len(n.inputs) : i # j /\ n.inputs[i].id = n.inputs[j].id
          \/ \E i, j \in 1..Len(n.outputs) : i # j /\ n.outputs[i].id = n.outputs[j].id
    \/ \E e \in Range(g.edges) :
          \/ e.fromNodeId \notin GraphNodes(g)
          \/ e.toNodeId \notin GraphNodes(g)
          \/ /\ e.fromNodeId \in GraphNodes(g)
             /\ e.fromPortId \notin PortIdsOf(GetNode(g, e.fromNodeId).outputs)
          \/ /\ e.toNodeId \in GraphNodes(g)
             /\ e.toPortId \notin PortIdsOf(GetNode(g, e.toNodeId).inputs)

(* C21: validateGraph(graph) throws if and only if a port under a node's
   inputs (outputs) has a kind other than input (output), or two ports of one
   node's input set or of its output set share an id, or an edge names a node
   that is not in the graph, or an edge's fromPortId (toPortId) is not the id
   of an output (input) port of its source (destination) node; otherwise it
   returns normally. *)
C21_ValidateGraphThrowsIff ==
    pc = "validated" => (result[1].error # None <=> Invalid(graph))

\* all nodes are valid and the first edge is fine, the second names an input port
\* its destination does not have
C21_Witness ==
    /\ pc = "validated"
    /\ Len(graph.edges) = 2
    /\ result[1].error # None
    /\ result[1].error[1].check = "toPortId"
    /\ result[1].error[1].edgeId = "e2"

\* a graph of three nodes and three edges passes
C21_WitnessValid ==
    /\ pc = "validated"
    /\ Len(graph.nodes) = 3
    /\ Len(graph.edges) = 3
    /\ result[1].error = None

(* C22: addEdge(graph, edge) always succeeds, including for an edge that names
   nodes or ports that do not exist; the returned graph's edge list is the
   input's edge list with the new edge appended as the last element and its
   node set is the same as the input's. *)
C22_AddEdgeAppends ==
    heap.last.op = "addEdge" =>
        LET input == heap.snapshots[heap.last.input]
            returned == Deref(heap, Len(heap.graphs))
        IN  /\ Len(heap.graphs) = heap.last.graphsBefore + 1
            /\ returned.edges = Append(input.edges, heap.last.edge)
            /\ returned.nodes = input.nodes

\* an edge between nodes that do not exist added behind two other edges
C22_Witness ==
    /\ heap.last.op = "addEdge"
    /\ heap.last.edge.fromNodeId = "Z"
    /\ Len(heap.snapshots[heap.last.input].edges) = 2
    /\ Len(Deref(heap, Len(heap.graphs)).edges) = 3
    /\ Deref(heap, Len(heap.graphs)).edges[3] = heap.last.edge
    /\ Deref(heap, Len(heap.graphs)).edges[1].id # Deref(heap, Len(heap.graphs)).edges[2].id

(* C23: execute never modifies the graph it is given (node map, node
   definitions' declared default state, edge list) nor the caller-supplied
   initialState map: from the call until execute returns or aborts both stay
   equal to what they were when execute was called. *)
C23_ExecuteLeavesArgumentsAlone ==
    [][/\ graph' = graph
       /\ pc \in {"loop", "node"} => initialState' = initialState]_vars

\* the chain seeded with A = 5 has returned: A's slot is 10 and B's 25 in the result,
\* the caller's map still says 5 and B's declared state is still 20
C23_Witness ==
    /\ pc = "done"
    /\ graph = ChainGraph
    /\ initialState = Some([A |-> [value |-> 5]])
    /\ strategy = SinglePassStrategy
    /\ result[1].state["A"] = [value |-> 10]
    /\ result[1].state["B"] = [value |-> 25]
    /\ GetNode(graph, "B").state = [value |-> 20]

\* execute was called with an initialState and aborted after evaluating INPUT
C23_WitnessAbort ==
    /\ pc = "error"
    /\ graph = DanglingGraph
    /\ initialState # None
    /\ "INPUT" \in DOMAIN outputs

-----------------------------------------------------------------------------
(* A host using BasicExecutionContext objects over a state map of its own *)

MaxContexts == 2

ContextNodeIds == {"node1", "node2"}
ContextStates == {[value |-> 1], [value |-> 42]}

NewContext ==
    /\ pc = "idle"
    /\ Len(contexts) < MaxContexts
    /\ \E nodeId \in ContextNodeIds, iter \in 1..MaxIterations :
           contexts' = Append(contexts, BasicExecutionContext(nodeId, iter))
    /\ UNCHANGED <<engineVars, heap, lastCall>>

CallGetState ==
    /\ pc = "idle"
    /\ \E i \in DOMAIN contexts :
           lastCall' = [op |-> "getState", ctx |-> i,
                        returned |-> getState(contexts[i], stateMap)]
    /\ UNCHANGED <<graph, pc, order, strategy, stratPrev, stateMap, outputs, iteration,
                   previousResults, executionOrder, backEdgeValues, currentResults, pos,
                   resolved, inputValues, calls, history, result, initialState, runs,
                   heap, contexts>>

CallSetState ==
    /\ pc = "idle"
    /\ \E i \in DOMAIN contexts, next \in ContextStates :
           /\ stateMap' = setState(contexts[i], stateMap, next)
           /\ lastCall' = [op |-> "setState", ctx |-> i, next |-> next,
                           before |-> stateMap, constructed |-> contexts[i]]
    /\ UNCHANGED <<graph, pc, order, strategy, stratPrev, outputs, iteration,
                   previousResults, executionOrder, backEdgeValues, currentResults, pos,
                   resolved, inputValues, calls, history, result, initialState, runs,
                   heap, contexts>>

NextContext == NewContext \/ CallGetState \/ CallSetState

SpecContext == Init /\ [][NextContext]_vars

(* C24: a context bound to node N reads and writes only N's slot: after
   setState(v) the entry of N is v, every other entry is what it was, a
   following getState() on that context returns v; and no step changes the
   nodeId or the iteration of a constructed context. *)
C24_ContextScopedToOwnSlot ==
    /\ [](lastCall.op = "setState" =>
            LET ctx == contexts[lastCall.ctx]
            IN  /\ DOMAIN stateMap = DOMAIN lastCall.before \cup {ctx.nodeId}
                /\ stateMap[ctx.nodeId] = lastCall.next
                /\ \A other \in DOMAIN lastCall.before \ {ctx.nodeId} :
                       stateMap[other] = lastCall.before[other]
                /\ getState(ctx, stateMap) = Some(lastCall.next))
    /\ [][\A i \in DOMAIN contexts :
              i \in DOMAIN contexts' /\ contexts'[i] = contexts[i]]_vars

\* node2 held 42 when the context of node1 replaced 1 by 42 in its own slot
C24_Witness ==
    /\ lastCall.op = "setState"
    /\ contexts[lastCall.ctx].nodeId = "node1"
    /\ {"node1", "node2"} \subseteq DOMAIN lastCall.before
    /\ lastCall.before["node1"] = [value |-> 1]
    /\ lastCall.before["node2"] = [value |-> 42]
    /\ lastCall.next = [value |-> 42]
    /\ Len(contexts) = 2
    /\ contexts[1].nodeId # contexts[2].nodeId

-----------------------------------------------------------------------------
(* CLDEngine.execute as one function: what a call returns on an engine whose
   strategy object has served no call before *)

\* the for-loop over executionOrder from position i on; run holds stateMap,
\* outputs, currentResults and the error thrown, if any
RECURSIVE executeNodes(_, _, _, _, _)
executeNodes(g, execOrder, backVals, i, run) ==
    IF i > Len(execOrder) \/ run.error # None
    THEN run
    ELSE LET nodeId == execOrder[i]
         IN  IF ~HasNode(g, nodeId)
             THEN [run EXCEPT !.error =
                      Some("Node \"" \o nodeId \o "\" not found in graph")]
             ELSE LET node == GetNode(g, nodeId)
                      gathered == gatherInputs(nodeId, node, g, run.currentResults,
                                               backVals, execOrder)
                      computed == calculate(node, gathered.inputValues,
                                            run.stateMap[nodeId])
                  IN  IF gathered.error # None
                      THEN [run EXCEPT !.error = gathered.error]
                      ELSE executeNodes(g, execOrder, backVals, i + 1,
                               [run EXCEPT
                                   !.stateMap = [run.stateMap EXCEPT
                                                    ![nodeId] = computed.state],
                                   !.currentResults = Put(run.currentResults, nodeId,
                                                          computed.outputs),
                                   !.outputs = Put(run.outputs, nodeId,
                                                   computed.outputs)])

\* the while-loop from pass iter on
RECURSIVE executeLoop(_, _, _, _, _, _)
executeLoop(g, s, stored, iter, prev, run) ==
    LET execOrder == determineExecutionOrder(s, g)
        backVals == getBackEdgeValues(s, iter, prev, execOrder)
        after == executeNodes(g, execOrder, backVals, 1,
                              [run EXCEPT !.currentResults = EmptyRecord])
        verdict == shouldContinue(s, stored, iter, after.currentResults)
    IN  IF after.error # None
        THEN [error |-> after.error[1]]
        ELSE IF verdict.continue
        THEN executeLoop(g, s, verdict.previousResults, iter + 1,
                         Some(after.currentResults), after)
        ELSE [state |-> after.stateMap, outputs |-> after.outputs,
              iterations |-> iter]

execute(g, s, initial) ==
    executeLoop(g, s, None, 1, None,
                [stateMap |-> InitialStateMap(g, initial), outputs |-> EmptyRecord,
                 currentResults |-> EmptyRecord, error |-> None])

\* a first call returns what the function says
FirstCallIsExecute ==
    (runs = 1 /\ pc \in {"done", "error"}) =>
        result = Some(execute(graph, strategy, initialState))

(* C25: two execute calls started concurrently against the same graph, each
   with its own state map, do not interfere: each returns the ExecutionResult
   (iterations, outputs, state) it would return if it ran alone.  execute
   holds no await, so the body of the call started first runs to its end
   before the body of the second begins: the calls of one engine are the
   runs of ExecuteSeeded and ExecuteAgain. *)
C25_ConcurrentCallsReturnAsAlone ==
    pc \in {"done", "error"} =>
        result = Some(execute(graph, strategy, initialState))

-----------------------------------------------------------------------------
(* MultiPassStrategy.ts: the constructors *)

\* new MultiPassStrategy(maxIterations): the instance, or the error thrown
newMultiPassStrategy(maxIterations) ==
    IF maxIterations < 1
    THEN [error |-> "maxIterations must be at least 1"]
    ELSE [instance |-> MultiPassStrategy(maxIterations)]

\* a constructor that refuses negative caps only
newConvergenceStrategy_AllowsZero(threshold, maxArg) ==
    LET maxIterations == IF maxArg = None THEN 100 ELSE maxArg[1]
    IN  IF threshold < 0
        THEN [error |-> "threshold must be non-negative"]
        ELSE IF maxIterations < 0
        THEN [error |-> "maxIterations must be at least 1"]
        ELSE [instance |-> ConvergenceStrategy(threshold, maxIterations)]

\* new ConvergenceStrategy(threshold, maxIterations = 100); maxArg is the optional
\* second argument
newConvergenceStrategy(threshold, maxArg) ==
    LET maxIterations == IF maxArg = None THEN 100 ELSE maxArg[1]
    IN  IF threshold < 0
        THEN [error |-> "threshold must be non-negative"]
        ELSE IF maxIterations < 1
        THEN [error |-> "maxIterations must be at least 1"]
        ELSE [instance |-> ConvergenceStrategy(threshold, maxIterations)]

\* arguments a host may pass
CapArguments == -1..MaxIterations
ThresholdArguments == -1..MaxThreshold

\* the constructor call recorded in lastCall; strategy holds the instance last built
Constructed(kind, args, outcome) ==
    /\ pc = "idle"
    /\ lastCall' = [op |-> "new", kind |-> kind, args |-> args, outcome |-> outcome]
    /\ strategy' = IF "instance" \in DOMAIN outcome THEN outcome.instance ELSE strategy
    /\ UNCHANGED <<graph, pc, order, stratPrev, stateMap, outputs, iteration,
                   previousResults, executionOrder, backEdgeValues, currentResults, pos,
                   resolved, inputValues, calls, history, result, initialState, runs,
                   heap, contexts>>

ConstructMultiPass ==
    \E maxIterations \in CapArguments :
        Constructed("MultiPass", [maxIterations |-> Some(maxIterations)],
                    newMultiPassStrategy(maxIterations))

ConstructConvergence ==
    \E threshold \in ThresholdArguments,
       maxArg \in {None} \cup {Some(n) : n \in CapArguments} :
        Constructed("Convergence", [threshold |-> threshold, maxIterations |-> maxArg],
                    newConvergenceStrategy(threshold, maxArg))

NextConstruct == ConstructMultiPass \/ ConstructConvergence

SpecConstruct == Init /\ [][NextConstruct]_vars

\* the cap a constructor call asks for
RequestedCap == IF lastCall.args.maxIterations = None THEN 100
                ELSE lastCall.args.maxIterations[1]

(* C26: constructing MultiPass with maxIterations < 1, or Convergence with
   threshold < 0 or maxIterations < 1, throws a configuration error;
   construction succeeds for MultiPass(n >= 1) and for Convergence(threshold
   >= 0, maxIterations >= 1, 100 when not given); no instance has a cap
   below 1. *)
C26_ConstructorsRejectBadConfiguration ==
    /\ lastCall.op = "new" =>
          LET badCap == RequestedCap < 1
              goodCap == RequestedCap >= 1
              threshold == lastCall.args.threshold
          IN  IF lastCall.kind = "MultiPass"
              THEN /\ badCap => DOMAIN lastCall.outcome = {"error"}
                   /\ goodCap =>
                         lastCall.outcome =
                            [instance |-> [kind |-> "MultiPass",
                                           maxIterations |-> RequestedCap]]
              ELSE /\ (threshold < 0 \/ badCap) =>
                         DOMAIN lastCall.outcome = {"error"}
                   /\ (threshold >= 0 /\ goodCap) =>
                         lastCall.outcome =
                            [instance |-> [kind |-> "Convergence",
                                           threshold |-> threshold,
                                           maxIterations |-> RequestedCap]]
    /\ strategy # NoStrategy => strategy.maxIterations >= 1

\* Convergence(0) built with the default cap, then Convergence(0, 0) refused
C26_Witness ==
    /\ lastCall.op = "new"
    /\ lastCall.kind = "Convergence"
    /\ lastCall.args = [threshold |-> 0, maxIterations |-> Some(0)]
    /\ lastCall.outcome = [error |-> "maxIterations must be at least 1"]
    /\ strategy = ConvergenceStrategy(0, 100)

\* MultiPass(0) refused before any instance exists
C26_WitnessMultiPass ==
    /\ lastCall.op = "new"
    /\ lastCall.kind = "MultiPass"
    /\ lastCall.args.maxIterations = Some(0)
    /\ "error" \in DOMAIN lastCall.outcome
    /\ strategy = NoStrategy

-----------------------------------------------------------------------------
(* A host calling the methods of a strategy object directly *)

\* node ids and field names of the snapshots a host passes: "a" + "." + "b.c" and
\* "a.b" + "." + "c" are the same key
SnapshotFields == [a |-> "b.c", ab |-> "c"]
SnapshotValues == {0, 1, NonNumeric}

\* the output records of one node: without the field, or with one of the values
OutputRecords(field) ==
    {EmptyRecord} \cup {Put(EmptyRecord, field, v) : v \in SnapshotValues}

\* Maps of node outputs over the nodes "a" and "a.b"
Snapshots ==
    {EmptyRecord}
        \cup {Put(EmptyRecord, "a", r) : r \in OutputRecords(SnapshotFields.a)}
        \cup {Put(EmptyRecord, "a.b", r) : r \in OutputRecords(SnapshotFields.ab)}
        \cup {Put(Put(EmptyRecord, "a", r), "a.b", q) :
                 r \in OutputRecords(SnapshotFields.a),
                 q \in OutputRecords(SnapshotFields.ab)}

\* the orders in which the entries of a Map may have been set
InsertionOrders(map) ==
    {keys \in {<<>>, <<"a">>, <<"a.b">>, <<"a", "a.b">>, <<"a.b", "a">>} :
        Range(keys) = DOMAIN map}

\* a freshly constructed strategy object, nothing else
InitStrategy ==
    /\ graph = createGraph
    /\ pc = "idle"
    /\ order = None
    /\ strategy \in Strategies
    /\ stratPrev = None
    /\ stateMap = EmptyRecord
    /\ outputs = EmptyRecord
    /\ iteration = 0
    /\ previousResults = None
    /\ executionOrder = <<>>
    /\ backEdgeValues = EmptyRecord
    /\ currentResults = EmptyRecord
    /\ pos = 0
    /\ resolved = <<>>
    /\ inputValues = EmptyRecord
    /\ calls = EmptyRecord
    /\ history = <<>>
    /\ result = None
    /\ initialState = None
    /\ runs = 0
    /\ heap = EmptyHeap
    /\ contexts = <<>>
    /\ lastCall = [op |-> "none"]

\* strategy.getBackEdgeValues(iter, previous)
CallGetBackEdgeValues ==
    /\ pc = "idle"
    /\ \E iter \in 1..MaxIterations, map \in Snapshots, given \in BOOLEAN :
          \E keys \in InsertionOrders(map) :
              LET previous == IF given THEN Some(map) ELSE None
              IN  lastCall' = [op |-> "getBackEdgeValues", iteration |-> iter,
                               previous |-> previous, keys |-> keys,
                               returned |-> getBackEdgeValues(strategy, iter,
                                                              previous, keys)]
    /\ UNCHANGED <<engineVars, heap, contexts>>

NextBackEdge == CallGetBackEdgeValues

SpecBackEdge == InitStrategy /\ [][NextBackEdge]_vars

\* the fields of a snapshot that hold a number, as pairs of node id and field name
NumericFields(map) ==
    {p \in UNION {{<<n, f>> : f \in DOMAIN map[n]} : n \in DOMAIN map} :
        IsNumber(map[p[1]][p[2]])}

(* C27: for MultiPass and for Convergence alike, getBackEdgeValues(iteration,
   previous) returns the empty mapping when iteration = 1 or previous is
   absent; otherwise it returns exactly one entry "nodeId.field" -> value for
   every node of previous and every field of its output record that holds a
   number, and no entry for any other field; both strategies return the same
   mapping for the same arguments. *)
C27_BackEdgeDefaultsScan ==
    (lastCall.op = "getBackEdgeValues" /\ strategy.kind \in {"MultiPass", "Convergence"}) =>
        LET returned == lastCall.returned
            other == IF strategy.kind = "MultiPass"
                     THEN ConvergenceStrategy(0, 1) ELSE MultiPassStrategy(1)
        IN  /\ IF lastCall.iteration = 1 \/ lastCall.previous = None
               THEN returned = EmptyRecord
               ELSE LET prev == lastCall.previous[1]
                    IN  /\ DOMAIN returned =
                              {BackEdgeKey(p[1], p[2]) : p \in NumericFields(prev)}
                        /\ \A p \in NumericFields(prev) :
                              returned[BackEdgeKey(p[1], p[2])] = prev[p[1]][p[2]]
            /\ returned = getBackEdgeValues(other, lastCall.iteration,
                                            lastCall.previous, lastCall.keys)

\* the scan agrees with the claim whenever no two numeric fields give the same key
ScanWithoutCollision ==
    (/\ lastCall.op = "getBackEdgeValues"
     /\ lastCall.previous # None
     /\ \A p, q \in NumericFields(lastCall.previous[1]) :
            BackEdgeKey(p[1], p[2]) = BackEdgeKey(q[1], q[2]) => p = q)
        => C27_BackEdgeDefaultsScan

\* strategy.shouldContinue(iter, current); stratPrev is the private snapshot
CallShouldContinue ==
    /\ pc = "idle"
    /\ \E iter \in 1..MaxIterations, current \in Snapshots :
          LET verdict == shouldContinue(strategy, stratPrev, iter, current)
          IN  /\ stratPrev' = verdict.previousResults
              /\ lastCall' = [op |-> "shouldContinue", iteration |-> iter,
                              current |-> current, before |-> stratPrev,
                              returned |-> verdict.continue]
    /\ UNCHANGED <<graph, pc, order, strategy, stateMap, outputs, iteration,
                   previousResults, executionOrder, backEdgeValues, currentResults, pos,
                   resolved, inputValues, calls, history, result, initialState, runs,
                   heap, contexts>>

NextShouldContinue == CallShouldContinue

SpecShouldContinue == InitStrategy /\ [][NextShouldContinue]_vars

\* the last call was a comparing call: Convergence, below the cap, baseline stored
ComparingCall ==
    /\ lastCall.op = "shouldContinue"
    /\ strategy.kind = "Convergence"
    /\ lastCall.iteration < strategy.maxIterations
    /\ lastCall.before # None

(* C28: after its baseline call, ConvergenceStrategy.shouldContinue(iteration,
   current) with iteration < maxIterations returns false exactly when the two
   snapshots contain the same nodes and every numeric field of every node's
   current output differs from the same field of the stored snapshot by
   strictly less than threshold; it returns true as soon as one numeric field
   differs by at least threshold; in both cases the stored snapshot is
   replaced by current. *)
C28_ShouldContinueComparesSnapshots ==
    ComparingCall =>
        LET prev == lastCall.before[1]
            cur == lastCall.current
            sameNodes == DOMAIN prev = DOMAIN cur
            within == \A p \in NumericFields(cur) :
                         /\ p[1] \in DOMAIN prev
                         /\ p[2] \in DOMAIN prev[p[1]]
                         /\ IsNumber(prev[p[1]][p[2]])
                         /\ Abs(cur[p[1]][p[2]] - prev[p[1]][p[2]]) < strategy.threshold
            beyond == \E p \in NumericFields(cur) \cap NumericFields(prev) :
                         Abs(cur[p[1]][p[2]] - prev[p[1]][p[2]]) >= strategy.threshold
        IN  /\ lastCall.returned = ~(sameNodes /\ within)
            /\ beyond => lastCall.returned
            /\ stratPrev = Some(cur)

\* threshold 1, both nodes unchanged at 0 and 1: the call returns false
C28_Witness ==
    /\ ComparingCall
    /\ strategy.threshold = 1
    /\ DOMAIN lastCall.current = {"a", "a.b"}
    /\ lastCall.current["a"] = Put(EmptyRecord, "b.c", 0)
    /\ lastCall.current["a.b"] = [c |-> 1]
    /\ lastCall.before = Some(lastCall.current)
    /\ ~lastCall.returned
    /\ stratPrev = Some(lastCall.current)

\* threshold 1, field c of a.b moved from 0 to 1: the call returns true
C28_WitnessBeyond ==
    /\ ComparingCall
    /\ strategy.threshold = 1
    /\ DOMAIN lastCall.current = {"a", "a.b"}
    /\ DOMAIN lastCall.before[1] = {"a", "a.b"}
    /\ lastCall.current["a"] = lastCall.before[1]["a"]
    /\ lastCall.before[1]["a.b"] = [c |-> 0]
    /\ lastCall.current["a.b"] = [c |-> 1]
    /\ lastCall.returned

\* some node of the current snapshot lacks, or holds as a non-number, a field
\* that is numeric in its record of the stored snapshot
ShapeChanged ==
    \E p \in NumericFields(lastCall.before[1]) :
        /\ p[1] \in DOMAIN lastCall.current
        /\ p \notin NumericFields(lastCall.current)

(* C29: convergence requires the same output shape: if a node's output record
   in the stored snapshot has a numeric field that is missing from, or no
   longer numeric in, that node's current output record, shouldContinue
   returns true (for iteration < maxIterations). *)
C29_ShapeChangeIsNotConverged ==
    (ComparingCall /\ ShapeChanged) => lastCall.returned

(* C30: every execute call under Convergence(threshold, max) with max >= 2
   performs at least 2 iterations: the first shouldContinue call of a run
   returns true and only stores the baseline snapshot. *)
C30_ConvergenceRunsTwice ==
    (pc = "done" /\ strategy.kind = "Convergence" /\ strategy.maxIterations >= 2) =>
        result[1].iterations >= 2

\* on an engine that has served no call before, the claim holds
FirstConvergenceRunsTwice ==
    (runs = 1 /\ pc = "done" /\ strategy.kind = "Convergence"
        /\ strategy.maxIterations >= 2) =>
        result[1].iterations >= 2

-----------------------------------------------------------------------------
(* Termination of execute *)

\* execute is straight-line code around its loops: once called, the step it is
\* at is taken.  BeginStep is the change of position that BeginIteration, and no
\* other action, makes; it is enabled exactly when BeginIteration is.
BeginStep == pc = "loop" /\ pc' = "node"

SpecFair ==
    /\ SpecHost
    /\ WF_pc(BeginStep)
    /\ WF_vars(ExecNode)
    /\ WF_vars(EndIteration)

\* the iteration cap of a strategy
Cap(s) == IF s.kind = "SinglePass" THEN 1 ELSE s.maxIterations

(* C31: for every graph and each built-in strategy, execute eventually ends
   (it returns, or aborts on an edge from a node that is not in the graph) and
   the returned iteration count never exceeds the strategy's cap: 1 for
   SinglePass, n for MultiPass(n), max for Convergence(threshold, max). *)
C31_ExecuteTerminatesWithinCap ==
    (pc \in {"loop", "node"}) ~>
        \/ pc = "error"
        \/ pc = "done" /\ result[1].iterations <= Cap(strategy)

\* Convergence(0, MaxIterations) on the cycle returned after its last allowed pass
C31_Witness ==
    /\ pc = "done"
    /\ graph = CycleGraph
    /\ strategy = ConvergenceStrategy(0, MaxIterations)
    /\ result[1].iterations = MaxIterations

\* in every graph the host can build, a run is never beyond the cap and never
\* beyond the end of the order
WithinCap ==
    /\ pc \in {"loop", "node", "done"} => iteration <= Cap(strategy)
    /\ pc = "done" => result[1].iterations <= Cap(strategy)
    /\ pc = "node" => pos <= Len(executionOrder) + 1

-----------------------------------------------------------------------------
(* C32: for a graph that has no edges, the returned order equals the node
   insertion order of the graph (nodes added A, B, C yield [A, B, C]). *)
C32_NoEdgesKeepsInsertionOrder ==
    (OrderComputed /\ Len(graph.edges) = 0) => executionOrder = NodeKeys(graph)

\* three nodes and no edge, inserted B, INPUT, A
C32_Witness ==
    /\ OrderComputed
    /\ Len(graph.edges) = 0
    /\ NodeKeys(graph) = <<"B", "INPUT", "A">>
    /\ executionOrder = <<"B", "INPUT", "A">>

-----------------------------------------------------------------------------
(* The protocol between the engine and its strategy *)

\* the contexts of the node evaluations of k full passes over the order followed
\* by the first n evaluations of pass k + 1
ContextsOf(execOrder, k, n) ==
    [j \in 1..(k * Len(execOrder) + n) |->
        BasicExecutionContext(execOrder[((j - 1) % Len(execOrder)) + 1],
                              ((j - 1) \div Len(execOrder)) + 1)]

(* C33: within one execute call, in every iteration k the engine asks the
   strategy for the order once, then for the back-edge defaults with k and the
   outputs of iteration k-1 (absent exactly when k = 1), then invokes every
   node of the order exactly once, in that order, with a context whose
   iteration is k, and only after the last node calls shouldContinue(k,
   results of iteration k) once; no node of iteration k+1 is evaluated before
   that call has returned true. *)
C33_IterationProtocol ==
    /\ pc = "node" =>
          /\ executionOrder = determineExecutionOrder(strategy, graph)
          /\ (previousResults = None) <=> (iteration = 1)
          /\ iteration > 1 => previousResults = Some(history[iteration - 1])
          /\ backEdgeValues = getBackEdgeValues(strategy, iteration, previousResults,
                                                executionOrder)
          /\ Len(history) = iteration - 1
          /\ contexts = ContextsOf(executionOrder, iteration - 1, pos - 1)
          /\ DOMAIN currentResults = {executionOrder[i] : i \in 1..(pos - 1)}
          /\ \A n \in GraphNodes(graph) :
                calls[n] = iteration - 1 + (IF n \in DOMAIN currentResults THEN 1 ELSE 0)
    /\ pc \in {"loop", "done"} =>
          /\ Len(history) = iteration
          /\ iteration > 0 =>
                /\ contexts = ContextsOf(executionOrder, iteration, 0)
                /\ history[iteration] = currentResults
                /\ \A n \in GraphNodes(graph) : calls[n] = iteration
          /\ pc = "loop" /\ iteration > 0 =>
                shouldContinue(strategy, IF strategy.kind = "Convergence" /\ iteration > 1
                                         THEN Some(history[iteration - 1]) ELSE None,
                               iteration, currentResults).continue

\* third pass over the cycle fed by INPUT, two of its three nodes evaluated
C33_Witness ==
    /\ pc = "node"
    /\ iteration = 3
    /\ pos = 3
    /\ Len(executionOrder) = 3
    /\ Len(contexts) = 8
    /\ contexts[8] = BasicExecutionContext(executionOrder[2], 3)
    /\ \E e \in Range(graph.edges) :
          Position(e.fromNodeId) > Position(e.toNodeId) /\ Position(e.toNodeId) > 0
    /\ backEdgeValues # EmptyRecord

-----------------------------------------------------------------------------
(* findSCCs called on graphs whose node ids are any strings *)

\* sccs = findSCCs(graph)
CallFindSCCs ==
    /\ pc = "idle"
    /\ pc' = "sccs"
    /\ lastCall' = [op |-> "findSCCs", returned |-> findSCCs(graph)]
    /\ UNCHANGED <<graph, order, strategy, stratPrev, stateMap, outputs, iteration,
                   previousResults, executionOrder, backEdgeValues, currentResults, pos,
                   resolved, inputValues, calls, history, result, initialState, runs,
                   heap, contexts>>

NextSCC ==
    \/ AddAnyNode
    \/ AddAnyEdge
    \/ CallFindSCCs

SpecSCC == Init /\ [][NextSCC]_vars

\* the groups of a findSCCs result that hold a node id
GroupsOf(sccs, id) == {c \in 1..Len(sccs) : \E i \in 1..Len(sccs[c]) : sccs[c][i] = id}

\* the groups are non-empty, duplicate-free, and every node is in exactly one
IsPartition(sccs, g) ==
    /\ \A c \in 1..Len(sccs) :
          /\ Len(sccs[c]) > 0
          /\ Range(sccs[c]) \subseteq GraphNodes(g)
          /\ \A i, j \in 1..Len(sccs[c]) : sccs[c][i] = sccs[c][j] => i = j
    /\ \A id \in GraphNodes(g) : Cardinality(GroupsOf(sccs, id)) = 1

\* two distinct nodes share a group exactly when each reaches the other
GroupsAreComponents(sccs, g) ==
    \A a, b \in GraphNodes(g) :
        a # b => ((GroupsOf(sccs, a) \cap GroupsOf(sccs, b) # {})
                     <=> (Reaches(g, a, b) /\ Reaches(g, b, a)))

(* C34: findSCCs returns a partition of the graph's node ids (every node in
   exactly one group, no group empty) in which two distinct nodes share a
   group if and only if each is reachable from the other along edges; a node
   on no cycle through another node forms a singleton group, whether or not it
   has a self-loop. *)
C34_SCCsPartitionByMutualReachability ==
    lastCall.op = "findSCCs" =>
        /\ IsPartition(lastCall.returned, graph)
        /\ GroupsAreComponents(lastCall.returned, graph)

\* for graphs without the id "" the result is as claimed
SCCsOfNamedNodes ==
    (lastCall.op = "findSCCs" /\ "" \notin GraphNodes(graph)) =>
        /\ IsPartition(lastCall.returned, graph)
        /\ GroupsAreComponents(lastCall.returned, graph)

\* among them: A and B on a cycle, and the result has one group
SCCsOfNamedNodesCycle ==
    /\ lastCall.op = "findSCCs"
    /\ GraphNodes(graph) = {"A", "B"}
    /\ Reaches(graph, "A", "B") /\ Reaches(graph, "B", "A")
    /\ Len(lastCall.returned) = 1

-----------------------------------------------------------------------------
(* The order inside a component *)

\* the depth-first discovery number findSCCs gives a node
DiscoveryIndex(g, id) ==
    LET keys == NodeKeys(g)
        start == [index |-> 0, stack |-> <<>>, sccs |-> <<>>,
                  nodeData |-> [n \in Range(keys) |->
                                   [index |-> -1, lowLink |-> -1, onStack |-> FALSE]]]
    IN  RunTarjan(g, start, keys, 1).nodeData[id].index

\* the graph is one simple cycle through all its nodes, at least two
IsSimpleCycle(g) ==
    /\ Len(g.nodes) >= 2
    /\ Len(g.edges) = Len(g.nodes)
    /\ Range(g.edges) = LinkedEdges(g)
    /\ \A n \in GraphNodes(g) :
          /\ Cardinality({i \in 1..Len(g.edges) : g.edges[i].fromNodeId = n}) = 1
          /\ Closure(g, {n}) = GraphNodes(g)

\* v1, v2, ..., vk: the cycle walked from a node along its edges, k nodes long
RECURSIVE CycleWalk(_, _, _)
CycleWalk(g, from, k) ==
    IF k = 0 THEN <<>>
    ELSE <<from>> \o CycleWalk(g, getSuccessors(g, from)[1], k - 1)

Reverse(s) == [i \in 1..Len(s) |-> s[Len(s) + 1 - i]]

(* C35: inside each component of the returned order the members appear in the
   order they are popped from Tarjan's stack, the reverse of their depth-first
   discovery; so a simple cycle v1 -> v2 -> ... -> vk -> v1 whose first-visited
   node is v1 is emitted vk, ..., v2, v1: the k-1 edges v1 -> v2, ...,
   v(k-1) -> vk have their source after their destination (back edges) and
   only vk -> v1 has its source first (forward edge). *)
C35_ComponentInReverseDiscoveryOrder ==
    OrderComputed =>
        /\ \A a, b \in GraphNodes(graph) :
              (a # b /\ SameComponent(graph, a, b)) =>
                  (Position(a) < Position(b)
                      <=> DiscoveryIndex(graph, a) > DiscoveryIndex(graph, b))
        /\ IsSimpleCycle(graph) =>
              LET k == Len(graph.nodes)
                  walk == CycleWalk(graph, NodeKeys(graph)[1], k)
              IN  /\ executionOrder = Reverse(walk)
                  /\ \A e \in Range(graph.edges) :
                        IF e.fromNodeId = walk[k]
                        THEN Position(e.fromNodeId) < Position(e.toNodeId)
                        ELSE Position(e.fromNodeId) > Position(e.toNodeId)

\* the cycle A -> B -> INPUT -> A, A inserted first
C35_Witness ==
    /\ OrderComputed
    /\ IsSimpleCycle(graph)
    /\ NodeKeys(graph) = <<"A", "INPUT", "B">>
    /\ CycleWalk(graph, "A", 3) = <<"A", "B", "INPUT">>
    /\ executionOrder = <<"INPUT", "B", "A">>

-----------------------------------------------------------------------------
(* C36: running execute twice in succession on the same engine with the same
   graph and the same initial state returns the same ExecutionResult both
   times (iterations, outputs and state), for each of SinglePass, MultiPass
   and Convergence. *)
C36_SecondRunEqualsFirst ==
    (/\ pc = "done"
     /\ lastCall.op = "execute"
     /\ lastCall.earlier # None
     /\ lastCall.earlier[1].initialState = initialState)
        => result[1] = lastCall.earlier[1].result

\* with SinglePass and MultiPass the second run does return what the first did
SecondRunEqualsFirstWithoutSnapshot ==
    strategy.kind # "Convergence" => C36_SecondRunEqualsFirst

\* such a second run, of MultiPass on the cycle seeded with A = 5
SecondRunOfMultiPass ==
    /\ pc = "done"
    /\ lastCall.op = "execute"
    /\ lastCall.earlier # None
    /\ lastCall.earlier[1].initialState = initialState
    /\ initialState = Some([A |-> [value |-> 5]])
    /\ strategy = MultiPassStrategy(2)
    /\ graph = CycleGraph

-----------------------------------------------------------------------------
(* C37: in the order of the built-in strategies every edge whose source is
   positioned after its destination joins two nodes of one strongly connected
   component; so in an acyclic graph no edge is resolved from the back-edge
   defaults, in any iteration. *)
C37_LaterSourceIsSameComponent ==
    /\ OrderComputed =>
          \A e \in LinkedEdges(graph) :
              Position(e.fromNodeId) > Position(e.toNodeId) =>
                  /\ e.fromNodeId # e.toNodeId
                  /\ SameComponent(graph, e.fromNodeId, e.toNodeId)
    /\ (Evaluated /\ Acyclic(graph)) =>
          \A i \in 1..Len(resolved) : ~resolved[i].isBackEdge

\* an acyclic graph whose edges run against insertion order, in a later iteration
C37_Witness ==
    /\ Evaluated
    /\ iteration = 2
    /\ Acyclic(graph)
    /\ NodeKeys(graph) = <<"B", "A", "INPUT">>
    /\ CurrentNode = "B"
    /\ Len(resolved) = 2
    /\ \A i \in 1..2 : resolved[i].edge.fromNodeId # "B" /\ ~resolved[i].isBackEdge

\* a cycle fed from outside: the one edge with a later source is inside the cycle
C37_WitnessCycle ==
    /\ OrderComputed
    /\ \E e \in LinkedEdges(graph) :
          /\ Position(e.fromNodeId) > Position(e.toNodeId)
          /\ SameComponent(graph, e.fromNodeId, e.toNodeId)
    /\ \E e \in LinkedEdges(graph) : ~SameComponent(graph, e.fromNodeId, e.toNodeId)

-----------------------------------------------------------------------------
(* A host whose nodes name an output port differently from its id *)

\* a variable node whose output port has id "delta" and display name "Delta";
\* calculate returns { delta: ... }, the field named by the port id
createLabelledNode(id, initialValue) ==
    [id |-> id, type |-> "variable", state |-> [value |-> initialValue],
     inputs |-> <<PortDescriptor("delta", "delta", "input")>>,
     outputs |-> <<PortDescriptor("delta", "Delta", "output")>>,
     outputValue |-> 0]

\* INPUT(constant 1) -> A -> B -> A with labelled A and B
LabelledCycleGraph ==
    LET g0 == createGraph
        g1 == addNode(g0, createConstantNode("INPUT", 1))
        g2 == addNode(g1, createLabelledNode("A", 0))
        g3 == addNode(g2, createLabelledNode("B", 0))
        g4 == addEdge(g3, Edge("e0", "INPUT", "delta", "A", "delta"))
        g5 == addEdge(g4, Edge("e1", "A", "delta", "B", "delta"))
    IN  addEdge(g5, Edge("e2", "B", "delta", "A", "delta"))

\* the same cycle with the labelled node A only
HalfLabelledCycleGraph ==
    LET g0 == createGraph
        g1 == addNode(g0, createConstantNode("INPUT", 1))
        g2 == addNode(g1, createLabelledNode("A", 0))
        g3 == addNode(g2, createVariableNode("B", 0))
        g4 == addEdge(g3, Edge("e0", "INPUT", "delta", "A", "delta"))
        g5 == addEdge(g4, Edge("e1", "A", "delta", "B", "delta"))
    IN  addEdge(g5, Edge("e2", "B", "delta", "A", "delta"))

LabelledGraphs == {LabelledCycleGraph, HalfLabelledCycleGraph, CycleGraph}

InitLabelled ==
    /\ graph \in LabelledGraphs
    /\ pc = "idle"
    /\ order = None
    /\ strategy = NoStrategy
    /\ stratPrev = None
    /\ stateMap = EmptyRecord
    /\ outputs = EmptyRecord
    /\ iteration = 0
    /\ previousResults = None
    /\ executionOrder = <<>>
    /\ backEdgeValues = EmptyRecord
    /\ currentResults = EmptyRecord
    /\ pos = 0
    /\ resolved = <<>>
    /\ inputValues = EmptyRecord
    /\ calls = EmptyRecord
    /\ history = <<>>
    /\ result = None
    /\ initialState = None
    /\ runs = 0
    /\ heap = EmptyHeap
    /\ contexts = <<>>
    /\ lastCall = [op |-> "none"]

NextLabelled ==
    \/ Execute
    \/ BeginIteration
    \/ ExecNode
    \/ EndIteration

SpecLabelled == InitLabelled /\ [][NextLabelled]_vars

\* the number an output record holds in one field, else 0
NumberInField(record, field) ==
    IF field \in DOMAIN record /\ IsNumber(record[field]) THEN record[field] ELSE 0

\* the output record an edge's value is taken from: this iteration's for a
\* forward edge, the previous iteration's for a back edge
RecordReadBy(r) ==
    LET from == r.edge.fromNodeId
        held == IF r.isBackEdge
                THEN IF previousResults = None THEN EmptyRecord ELSE previousResults[1]
                ELSE currentResults
    IN  IF from \in DOMAIN held THEN held[from] ELSE EmptyRecord

SuppliesDefaults == strategy.kind # "SinglePass" /\ iteration > 1

(* C38: forward-edge and back-edge resolution read the same field of the
   source's output record, the one keyed by the edge's fromPortId: what an edge
   delivers does not depend on the display name of the source port, also when
   the name differs from the id. *)
C38_EdgesReadFieldOfPortId ==
    Evaluated =>
        \A i \in 1..Len(resolved) :
            (resolved[i].isBackEdge => SuppliesDefaults) =>
                resolved[i].edgeValue =
                    NumberInField(RecordReadBy(resolved[i]), resolved[i].edge.fromPortId)

\* what the two branches read: the back edge the field of the port id, the
\* forward edge the field of the port's display name
BackReadsIdForwardReadsName ==
    Evaluated =>
        \A i \in 1..Len(resolved) :
            (resolved[i].isBackEdge => SuppliesDefaults) =>
                LET e == resolved[i].edge
                    port == FindPort(GetNode(graph, e.fromNodeId).outputs, e.fromPortId)
                IN  resolved[i].edgeValue =
                        NumberInField(RecordReadBy(resolved[i]),
                                      IF resolved[i].isBackEdge THEN e.fromPortId
                                      ELSE port[1].name)

\* where the name equals the id the claim's reading is the code's
PlainPortsReadFieldOfPortId ==
    graph = CycleGraph => C38_EdgesReadFieldOfPortId

\* iteration 2 of the labelled cycle: B returned delta = 1, its forward edge gave A 0
ForwardEdgeMissesLabelledPort ==
    /\ Evaluated
    /\ graph = LabelledCycleGraph
    /\ iteration = 2
    /\ CurrentNode = "A"
    /\ currentResults["B"] = [delta |-> 1]
    /\ \E i \in 1..Len(resolved) :
          /\ resolved[i].edge.fromNodeId = "B"
          /\ ~resolved[i].isBackEdge
          /\ resolved[i].edgeValue = 0

-----------------------------------------------------------------------------
(* The input record of a calculate call *)

\* the values the resolved edges delivered to one input port, added up
DeliveredTo(portId) ==
    SumOver([i \in 1..Len(resolved) |-> resolved[i].edgeValue],
            {i \in 1..Len(resolved) : resolved[i].edge.toPortId = portId})

(* C39: the input record passed to a node's calculate has a key for an input
   port exactly when at least one edge of the graph targets that port of that
   node; such a key holds a number, the sum of its edges; an input port without
   an incoming edge is absent from the record, not present with 0. *)
C39_InputKeysMatchEdges ==
    Evaluated =>
        LET ports == Range(GetNode(graph, CurrentNode).inputs)
        IN  /\ DOMAIN inputValues \subseteq {p.name : p \in ports}
            /\ \A p \in ports :
                  /\ p.name \in DOMAIN inputValues <=> EdgesInto(graph, CurrentNode, p.id) # {}
                  /\ p.name \in DOMAIN inputValues =>
                        /\ IsNumber(inputValues[p.name])
                        /\ inputValues[p.name] = DeliveredTo(p.id)

\* A has an input port and no incoming edge, although the graph has edges: its
\* record is empty
C39_Witness ==
    /\ Evaluated
    /\ CurrentNode = "A"
    /\ Len(GetNode(graph, "A").inputs) = 1
    /\ Len(graph.edges) > 0
    /\ EdgesInto(graph, CurrentNode, "delta") = {}
    /\ inputValues = EmptyRecord

\* a port whose edges deliver 0 in sum is present, with 0
C39_WitnessZero ==
    /\ Evaluated
    /\ EdgesInto(graph, CurrentNode, "delta") # {}
    /\ \E i \in 1..Len(resolved) : resolved[i].isBackEdge
    /\ inputValues = [delta |-> 0]

-----------------------------------------------------------------------------
(* A host whose graphs hold a node with the empty id *)

\* the single node ""
EmptyIdGraph == addNode(createGraph, createVariableNode("", 0))

\* the nodes "" and A, no edge
EmptyIdPairGraph == addNode(EmptyIdGraph, createVariableNode("A", 0))

\* acyclic: A -> "", B -> "", A -> B (nodes added A, "", B)
EmptyIdSinkGraph ==
    LET g0 == createGraph
        g1 == addNode(g0, createVariableNode("A", 0))
        g2 == addNode(g1, createVariableNode("", 0))
        g3 == addNode(g2, createVariableNode("B", 0))
        g4 == addEdge(g3, Edge("e0", "A", "delta", "", "delta"))
        g5 == addEdge(g4, Edge("e1", "B", "delta", "", "delta"))
    IN  addEdge(g5, Edge("e2", "A", "delta", "B", "delta"))

\* the simple cycle "" -> A -> "" (nodes added "", A)
EmptyIdCycleGraph ==
    LET g0 == createGraph
        g1 == addNode(g0, createVariableNode("", 0))
        g2 == addNode(g1, createVariableNode("A", 0))
        g3 == addEdge(g2, Edge("e0", "", "delta", "A", "delta"))
    IN  addEdge(g3, Edge("e1", "A", "delta", "", "delta"))

\* the cycle A <-> C, with B and "" fed by it (nodes added A, "", B, C)
EmptyIdSplitGraph ==
    LET g0 == createGraph
        g1 == addNode(g0, createVariableNode("A", 0))
        g2 == addNode(g1, createVariableNode("", 0))
        g3 == addNode(g2, createVariableNode("B", 0))
        g4 == addNode(g3, createVariableNode("C", 0))
        g5 == addEdge(g4, Edge("e0", "A", "delta", "", "delta"))
        g6 == addEdge(g5, Edge("e1", "A", "delta", "B", "delta"))
        g7 == addEdge(g6, Edge("e2", "A", "delta", "C", "delta"))
        g8 == addEdge(g7, Edge("e3", "B", "delta", "", "delta"))
    IN  addEdge(g8, Edge("e4", "C", "delta", "A", "delta"))

EmptyIdGraphs ==
    {EmptyIdGraph, EmptyIdPairGraph, EmptyIdSinkGraph, EmptyIdCycleGraph, EmptyIdSplitGraph}

InitEmptyId ==
    /\ graph \in EmptyIdGraphs
    /\ pc = "idle"
    /\ order = None
    /\ strategy = NoStrategy
    /\ stratPrev = None
    /\ stateMap = EmptyRecord
    /\ outputs = EmptyRecord
    /\ iteration = 0
    /\ previousResults = None
    /\ executionOrder = <<>>
    /\ backEdgeValues = EmptyRecord
    /\ currentResults = EmptyRecord
    /\ pos = 0
    /\ resolved = <<>>
    /\ inputValues = EmptyRecord
    /\ calls = EmptyRecord
    /\ history = <<>>
    /\ result = None
    /\ initialState = None
    /\ runs = 0
    /\ heap = EmptyHeap
    /\ contexts = <<>>
    /\ lastCall = [op |-> "none"]

NextEmptyId ==
    \/ Execute
    \/ BeginIteration
    \/ ExecNode
    \/ EndIteration

SpecEmptyId == InitEmptyId /\ [][NextEmptyId]_vars

\* the order of the acyclic graph A -> "", B -> "", A -> B
EmptyIdReversesEdge ==
    (OrderComputed /\ graph = EmptyIdSinkGraph) => executionOrder = <<"B", "A">>

\* B, of another component, between the members C and A of the cycle
EmptyIdSplitsComponent ==
    (OrderComputed /\ graph = EmptyIdSplitGraph) => executionOrder = <<"C", "B", "A">>

\* the node "" is in no order
EmptyIdIsNeverOrdered ==
    OrderComputed => Range(executionOrder) = GraphNodes(graph) \ {""}

\* B's one incoming edge, A -> B of an acyclic graph, is resolved as a back edge
EmptyIdResolvesBackEdgeWithoutCycle ==
    (Evaluated /\ graph = EmptyIdSinkGraph /\ CurrentNode = "B") =>
        /\ Acyclic(graph)
        /\ Len(resolved) = 1
        /\ resolved[1].edge.fromNodeId = "A"
        /\ resolved[1].isBackEdge

\* the node "" is never evaluated and has no entry in the outputs returned
EmptyIdIsNeverEvaluated ==
    /\ "" \in DOMAIN calls => calls[""] = 0
    /\ pc = "done" => "" \notin DOMAIN result[1].outputs

====
